---- MODULE Spec2Model ----
(***************************************************************************)
(* Grid-universe simulation kernel: the immutable ECS world state, the     *)
(* per-turn step pipeline and its interaction systems.                     *)
(*                                                                         *)
(* A world is one record (the State dataclass).  A component store is a    *)
(* function whose DOMAIN is the set of entities that have the component;   *)
(* marker components (no data) are kept as the set of their keys.  An      *)
(* Optional value is a set with at most one element.  Every system is an   *)
(* operator State -> State; a system that raises returns Raise(name).      *)
(*                                                                         *)
(* Iteration over pyrsistent maps / Python sets of small integers visits   *)
(* the keys in ascending order (hash(i) = i, tables of >= 8 slots), so the *)
(* loops take the visiting order as a parameter `ord` (a permutation of    *)
(* Ids) and the program runs them with IterOrder, the ascending one.       *)
(***************************************************************************)
EXTENDS Integers, Sequences, FiniteSets, TLC

VARIABLES state, prev, last, raised

vars == <<state, prev, last, raised>>

(* ------------------------------ bounds -------------------------------- *)

MaxId == 6

MaxTurn == 2

Ids == 1..MaxId

IterOrder == [i \in 1..MaxId |-> i]

(* --------------------------- map helpers ------------------------------ *)

EmptyMap == [x \in {} |-> 0]

Has(f, k) == k \in DOMAIN f

Put(f, k, v) == [x \in (DOMAIN f) \cup {k} |-> IF x = k THEN v ELSE f[x]]

Drop(f, k) == [x \in (DOMAIN f) \ {k} |-> f[x]]

Restrict(f, S) == [x \in (DOMAIN f) \cap S |-> f[x]]

Visit(S, ord) == SelectSeq(ord, LAMBDA x: x \in S)

Min(S) == CHOOSE x \in S : \A y \in S : x <= y

Max2(a, b) == IF a >= b THEN a ELSE b

The(S) == CHOOSE x \in S : TRUE

RECURSIVE SumOver(_, _)
SumOver(f, S) ==
    IF S = {} THEN 0
    ELSE LET x == CHOOSE y \in S : TRUE IN f[x] + SumOver(f, S \ {x})

Raise(name) == [exc |-> name]

Raised(s) == "exc" \in DOMAIN s

(* ------------------------------ actions ------------------------------- *)

MOVE_ACTIONS == {"UP", "DOWN", "LEFT", "RIGHT"}

Action == MOVE_ACTIONS \cup {"USE_KEY", "PICK_UP", "WAIT"}

Delta(action) ==
    CASE action = "UP" -> <<0, -1>>
      [] action = "DOWN" -> <<0, 1>>
      [] action = "LEFT" -> <<-1, 0>>
      [] action = "RIGHT" -> <<1, 0>>

(* ----------------------------- the State ------------------------------ *)

State0 ==
    [ width |-> 3, height |-> 2,
      move_fn |-> "cardinal", objective_fn |-> "collect_exit",
      immunity |-> {}, phasing |-> {}, speed |-> EmptyMap,
      time_limit |-> EmptyMap, usage_limit |-> EmptyMap,
      agent |-> {}, blocking |-> {}, collectible |-> {}, collidable |-> {},
      cost |-> EmptyMap, damage |-> EmptyMap, dead |-> {}, exit |-> {},
      health |-> EmptyMap, inventory |-> EmptyMap, key |-> EmptyMap,
      lethal_damage |-> {}, locked |-> EmptyMap, moving |-> EmptyMap,
      pathfinding |-> EmptyMap, portal |-> EmptyMap, position |-> EmptyMap,
      pushable |-> {}, required |-> {}, rewardable |-> EmptyMap,
      status |-> EmptyMap,
      prev_position |-> EmptyMap, trail |-> EmptyMap, damage_hits |-> {},
      turn |-> 0, score |-> 0, win |-> FALSE, lose |-> FALSE,
      turn_limit |-> {}, seed |-> {} ]

(* The stores keyed by entity id, i.e. the fields the garbage collector    *)
(* filters: five effect stores, the property stores and prev_position.     *)
MarkerStores ==
    {"immunity", "phasing", "agent", "blocking", "collectible", "collidable",
     "dead", "exit", "lethal_damage", "pushable", "required"}

MapStores ==
    {"speed", "time_limit", "usage_limit", "cost", "damage", "health",
     "inventory", "key", "locked", "moving", "pathfinding", "portal",
     "position", "rewardable", "status", "prev_position"}

Keys(s, field) == IF field \in MarkerStores THEN s[field] ELSE DOMAIN s[field]

AllKeys(s) == UNION {Keys(s, f) : f \in MarkerStores \cup MapStores}

(* ------------------------- utils/terminal.py -------------------------- *)

is_valid_state(s, agent_id) == s.agent # {} /\ Has(s.position, agent_id)

is_terminal_state(s, agent_id) == s.win \/ s.lose \/ agent_id \in s.dead

(* ---------------------- utils/ecs.py, utils/grid.py ------------------- *)

entities_at(s, pos) == {e \in DOMAIN s.position : s.position[e] = pos}

entities_with_components_at(s, pos, store) == entities_at(s, pos) \cap store

is_in_bounds(s, pos) ==
    0 <= pos[1] /\ pos[1] < s.width /\ 0 <= pos[2] /\ pos[2] < s.height

wrap_position(x, y, width, height) == <<x % width, y % height>>

is_blocked_at(s, pos, check_collidable, check_pushable) ==
    \E other_id \in entities_at(s, pos) :
        \/ other_id \in s.blocking
        \/ (check_pushable /\ other_id \in s.pushable)
        \/ (check_collidable /\ other_id \in s.collidable)

(* --------------------------- utils/status.py -------------------------- *)

has_effect(s, effect_id) ==
    effect_id \in s.immunity \cup s.phasing \cup DOMAIN s.speed

valid_effect(s, effect_id) ==
    /\ ~(Has(s.time_limit, effect_id) /\ s.time_limit[effect_id] <= 0)
    /\ ~(Has(s.usage_limit, effect_id) /\ s.usage_limit[effect_id] <= 0)

(* A variant of get_status_effect that takes the lowest valid id, usage    *)
(* limit or not.                                                           *)
get_status_effect_lowest(effect_ids, effects, time_limit, usage_limit) ==
    LET valid == {eid \in effect_ids \cap effects :
                    /\ ~(Has(time_limit, eid) /\ time_limit[eid] <= 0)
                    /\ ~(Has(usage_limit, eid) /\ usage_limit[eid] <= 0)}
    IN  IF valid = {} THEN {} ELSE {Min(valid)}

(* effects: the union of the keys of the requested effect stores.          *)
get_status_effect(effect_ids, effects, time_limit, usage_limit) ==
    LET relevant == effect_ids \cap effects
        valid == {eid \in relevant :
                    /\ ~(Has(time_limit, eid) /\ time_limit[eid] <= 0)
                    /\ ~(Has(usage_limit, eid) /\ usage_limit[eid] <= 0)}
        unlimited == {eid \in valid : ~Has(usage_limit, eid)}
    IN  IF valid = {} THEN {}
        ELSE IF unlimited # {} THEN {Min(unlimited)}
        ELSE {Min(valid)}

(* A variant of use_status_effect that leaves the usage amount as it is.    *)
use_status_effect_keeps_amount(effect_id, usage_limit) == usage_limit

use_status_effect(effect_id, usage_limit) ==
    IF ~Has(usage_limit, effect_id) THEN usage_limit
    ELSE Put(usage_limit, effect_id, usage_limit[effect_id] - 1)

use_status_effect_if_present(effect_ids, effects, time_limit, usage_limit) ==
    LET effect_id == get_status_effect(effect_ids, effects, time_limit, usage_limit)
    IN  IF effect_id # {}
        THEN [usage_limit |-> use_status_effect(Min(effect_id), usage_limit),
              effect_id |-> effect_id]
        ELSE [usage_limit |-> usage_limit, effect_id |-> {}]

(* --------------------------- utils/trail.py --------------------------- *)

add_trail_position(s, entity_id, new_pos) ==
    [s EXCEPT !.trail =
        Put(s.trail, new_pos,
            (IF Has(s.trail, new_pos) THEN s.trail[new_pos] ELSE {}) \cup {entity_id})]

get_augmented_trail(s, entity_ids) ==
    LET here == {s.position[e] : e \in entity_ids \cap DOMAIN s.position}
    IN  [pos \in here \cup DOMAIN s.trail |->
            {e \in entity_ids \cap DOMAIN s.position : s.position[e] = pos}
            \cup (IF Has(s.trail, pos) THEN s.trail[pos] ELSE {})]

(* -------------------------- utils/health.py --------------------------- *)

(* Health is floored at zero; a lethal hit, or health reaching zero, marks *)
(* the target dead.  health maps an entity to its current health points.   *)
apply_damage_and_check_death(health, dead, eid, damage, lethal) ==
    LET new_hp == Max2(0, health[eid] - damage)
    IN  [health |-> Put(health, eid, new_hp),
         dead |-> IF lethal \/ new_hp = 0 THEN dead \cup {eid} ELSE dead]

(* -------------------------- systems/damage.py ------------------------- *)

_build_trail_cache(s, eid) == {pos \in DOMAIN s.trail : eid \in s.trail[pos]}

(* A variant of _is_swap that never reports a swap.                        *)
_is_swap_never(a_prev, a_curr, b_prev, b_curr) == FALSE

_is_swap(a_prev, a_curr, b_prev, b_curr) == a_prev = b_curr /\ a_curr = b_prev

_overlap(pos_a, pos_b) == pos_a = pos_b

(* A variant of _pure_vacated_origin that never exempts a pair.            *)
_pure_vacated_origin_never(t_prev, t_curr, d_prev, d_curr, t_trail, d_trail) == FALSE

_pure_vacated_origin(t_prev, t_curr, d_prev, d_curr, t_trail, d_trail) ==
    /\ t_curr = d_prev
    /\ ~_is_swap(t_prev, t_curr, d_prev, d_curr)
    /\ t_prev \notin d_trail
    /\ d_curr \notin t_trail

_candidate_damagers(s) == (DOMAIN s.damage) \cup s.lethal_damage

(* A variant of _apply_single_damage without the damage_hits test: a pair  *)
(* in contact is damaged again by every damage_system call of the turn.    *)
_apply_single_damage_no_hit_check(s, target_id, damager_id, acc) ==
    LET hit_key == <<target_id, damager_id, s.turn>>
        used == IF Has(s.status, target_id)
                THEN use_status_effect_if_present(
                         s.status[target_id], s.immunity \cup s.phasing,
                         s.time_limit, acc.usage_limit)
                ELSE [usage_limit |-> acc.usage_limit, effect_id |-> {}]
        damage == IF Has(s.damage, damager_id) THEN s.damage[damager_id] ELSE 0
        hurt == apply_damage_and_check_death(
                    acc.health, acc.dead, target_id, damage,
                    damager_id \in s.lethal_damage)
    IN  IF used.effect_id # {}
        THEN [acc EXCEPT !.usage_limit = used.usage_limit]
        ELSE IF damage < 0 THEN [acc EXCEPT !.exc = TRUE]
        ELSE [health |-> hurt.health, dead |-> hurt.dead,
              usage_limit |-> used.usage_limit,
              damage_hits |-> acc.damage_hits \cup {hit_key},
              exc |-> FALSE]

(* A variant that subtracts from the health the state had when the call    *)
(* started instead of the health accumulated over the damagers so far.     *)
_apply_single_damage_from_snapshot(s, target_id, damager_id, acc) ==
    LET hit_key == <<target_id, damager_id, s.turn>>
        used == IF Has(s.status, target_id)
                THEN use_status_effect_if_present(
                         s.status[target_id], s.immunity \cup s.phasing,
                         s.time_limit, acc.usage_limit)
                ELSE [usage_limit |-> acc.usage_limit, effect_id |-> {}]
        damage == IF Has(s.damage, damager_id) THEN s.damage[damager_id] ELSE 0
        hurt == apply_damage_and_check_death(
                    s.health, acc.dead, target_id, damage,
                    damager_id \in s.lethal_damage)
    IN  IF hit_key \in acc.damage_hits THEN acc
        ELSE IF used.effect_id # {}
        THEN [acc EXCEPT !.usage_limit = used.usage_limit]
        ELSE IF damage < 0 THEN [acc EXCEPT !.exc = TRUE]
        ELSE [health |-> Put(acc.health, target_id, hurt.health[target_id]),
              dead |-> hurt.dead,
              usage_limit |-> used.usage_limit,
              damage_hits |-> acc.damage_hits \cup {hit_key},
              exc |-> FALSE]

(* A variant that does not pass the damager's lethal marker on: the target *)
(* dies only when its health reaches zero.                                 *)
_apply_single_damage_lethal_ignored(s, target_id, damager_id, acc) ==
    LET hit_key == <<target_id, damager_id, s.turn>>
        used == IF Has(s.status, target_id)
                THEN use_status_effect_if_present(
                         s.status[target_id], s.immunity \cup s.phasing,
                         s.time_limit, acc.usage_limit)
                ELSE [usage_limit |-> acc.usage_limit, effect_id |-> {}]
        damage == IF Has(s.damage, damager_id) THEN s.damage[damager_id] ELSE 0
        hurt == apply_damage_and_check_death(
                    acc.health, acc.dead, target_id, damage, FALSE)
    IN  IF hit_key \in acc.damage_hits THEN acc
        ELSE IF used.effect_id # {}
        THEN [acc EXCEPT !.usage_limit = used.usage_limit]
        ELSE IF damage < 0 THEN [acc EXCEPT !.exc = TRUE]
        ELSE [health |-> hurt.health, dead |-> hurt.dead,
              usage_limit |-> used.usage_limit,
              damage_hits |-> acc.damage_hits \cup {hit_key},
              exc |-> FALSE]

(* A variant that clamps a negative amount to zero instead of raising.     *)
_apply_single_damage_clamps(s, target_id, damager_id, acc) ==
    LET hit_key == <<target_id, damager_id, s.turn>>
        used == IF Has(s.status, target_id)
                THEN use_status_effect_if_present(
                         s.status[target_id], s.immunity \cup s.phasing,
                         s.time_limit, acc.usage_limit)
                ELSE [usage_limit |-> acc.usage_limit, effect_id |-> {}]
        damage == IF Has(s.damage, damager_id) THEN Max2(0, s.damage[damager_id]) ELSE 0
        hurt == apply_damage_and_check_death(
                    acc.health, acc.dead, target_id, damage,
                    damager_id \in s.lethal_damage)
    IN  IF hit_key \in acc.damage_hits THEN acc
        ELSE IF used.effect_id # {}
        THEN [acc EXCEPT !.usage_limit = used.usage_limit]
        ELSE [health |-> hurt.health, dead |-> hurt.dead,
              usage_limit |-> used.usage_limit,
              damage_hits |-> acc.damage_hits \cup {hit_key},
              exc |-> FALSE]

(* acc carries the four maps the loops thread through, and exc, set when   *)
(* the ValueError for a negative amount is raised.                         *)
_apply_single_damage(s, target_id, damager_id, acc) ==
    LET hit_key == <<target_id, damager_id, s.turn>>
        used == IF Has(s.status, target_id)
                THEN use_status_effect_if_present(
                         s.status[target_id], s.immunity \cup s.phasing,
                         s.time_limit, acc.usage_limit)
                ELSE [usage_limit |-> acc.usage_limit, effect_id |-> {}]
        damage == IF Has(s.damage, damager_id) THEN s.damage[damager_id] ELSE 0
        hurt == apply_damage_and_check_death(
                    acc.health, acc.dead, target_id, damage,
                    damager_id \in s.lethal_damage)
    IN  IF hit_key \in acc.damage_hits THEN acc
        ELSE IF used.effect_id # {}
        THEN [acc EXCEPT !.usage_limit = used.usage_limit]
        ELSE IF damage < 0 THEN [acc EXCEPT !.exc = TRUE]
        ELSE [health |-> hurt.health, dead |-> hurt.dead,
              usage_limit |-> used.usage_limit,
              damage_hits |-> acc.damage_hits \cup {hit_key},
              exc |-> FALSE]

(* The predicate of the damager loop body: TRUE iff _apply_single_damage   *)
(* is called for the pair.                                                 *)
_damager_applies(s, target_id, damager_id) ==
    /\ damager_id # target_id
    /\ Has(s.position, damager_id)
    /\ LET target_pos == s.position[target_id]
           damager_pos == s.position[damager_id]
       IN  IF ~Has(s.prev_position, target_id) \/ ~Has(s.prev_position, damager_id)
           THEN _overlap(target_pos, damager_pos)
           ELSE LET target_prev == s.prev_position[target_id]
                    damager_prev == s.prev_position[damager_id]
                    target_trail == _build_trail_cache(s, target_id)
                    damager_trail == _build_trail_cache(s, damager_id)
                    overlap == _overlap(target_pos, damager_pos)
                    swap == _is_swap(target_prev, target_pos, damager_prev, damager_pos)
                    trails_intersect == target_trail \cap damager_trail # {}
                    endpoint_cross ==
                        /\ target_pos = damager_prev
                        /\ (target_prev \in damager_trail \/ damager_prev \in target_trail)
                IN  /\ ~(/\ ~overlap
                         /\ ~trails_intersect
                         /\ _pure_vacated_origin(target_prev, target_pos, damager_prev,
                                                 damager_pos, target_trail, damager_trail))
                    /\ (overlap \/ swap \/ trails_intersect \/ endpoint_cross)

RECURSIVE _damager_loop(_, _, _, _)
_damager_loop(s, target_id, acc, damager_ids) ==
    IF damager_ids = <<>> \/ acc.exc THEN acc
    ELSE _damager_loop(
             s, target_id,
             IF _damager_applies(s, target_id, Head(damager_ids))
             THEN _apply_single_damage(s, target_id, Head(damager_ids), acc)
             ELSE acc,
             Tail(damager_ids))

_apply_damage_for_target(s, target_id, acc, damager_ids) ==
    IF ~Has(s.position, target_id) \/ target_id \in acc.dead THEN acc
    ELSE _damager_loop(s, target_id, acc, damager_ids)

RECURSIVE _target_loop(_, _, _, _)
_target_loop(s, acc, target_ids, damager_ids) ==
    IF target_ids = <<>> \/ acc.exc THEN acc
    ELSE _target_loop(
             s, _apply_damage_for_target(s, Head(target_ids), acc, damager_ids),
             Tail(target_ids), damager_ids)

damage_system(s, ord) ==
    LET acc0 == [health |-> s.health, dead |-> s.dead,
                 usage_limit |-> s.usage_limit, damage_hits |-> s.damage_hits,
                 exc |-> FALSE]
        acc == _target_loop(s, acc0, Visit(DOMAIN s.health, ord),
                            Visit(_candidate_damagers(s), ord))
    IN  IF acc.exc THEN Raise("ValueError")
        ELSE [s EXCEPT !.health = acc.health, !.dead = acc.dead,
                       !.usage_limit = acc.usage_limit,
                       !.damage_hits = acc.damage_hits]

(* -------------------------- systems/status.py ------------------------- *)

(* A variant of tick_time_limit that decrements every time limit, listed   *)
(* in the status or not.                                                   *)
tick_time_limit_all(s, status, time_limit) ==
    [eid \in DOMAIN time_limit |-> time_limit[eid] - 1]

(* A variant of tick_time_limit that takes two off every listed limit.     *)
tick_time_limit_twice(s, status, time_limit) ==
    [eid \in DOMAIN time_limit |->
        IF eid \in status THEN time_limit[eid] - 2 ELSE time_limit[eid]]

tick_time_limit(s, status, time_limit) ==
    [eid \in DOMAIN time_limit |->
        IF eid \in status THEN time_limit[eid] - 1 ELSE time_limit[eid]]

(* A variant of is_effect_expired that looks at the time limit only.       *)
is_effect_expired_time_only(effect_id, time_limit, usage_limit) ==
    Has(time_limit, effect_id) /\ time_limit[effect_id] <= 0

is_effect_expired(effect_id, time_limit, usage_limit) ==
    \/ (Has(time_limit, effect_id) /\ time_limit[effect_id] <= 0)
    \/ (Has(usage_limit, effect_id) /\ usage_limit[effect_id] <= 0)

(* A variant of garbage_collect that removes the orphaned ids only.        *)
garbage_collect_orphans_only(s, time_limit, usage_limit, status) ==
    {effect_id \in status : has_effect(s, effect_id)}

garbage_collect(s, time_limit, usage_limit, status) ==
    {effect_id \in status :
        /\ has_effect(s, effect_id)
        /\ ~is_effect_expired(effect_id, time_limit, usage_limit)}

(* One tick_time_limit call per status: an effect listed in k statuses is  *)
(* decremented k times.                                                    *)
RECURSIVE _tick_loop(_, _, _)
_tick_loop(s, holders, time_limit) ==
    IF holders = <<>> THEN time_limit
    ELSE _tick_loop(s, Tail(holders),
                    tick_time_limit(s, s.status[Head(holders)], time_limit))

status_tick_system(s) ==
    [s EXCEPT !.time_limit = _tick_loop(s, Visit(DOMAIN s.status, IterOrder), s.time_limit)]

status_gc_system(s) ==
    [s EXCEPT !.status =
        [entity_id \in DOMAIN s.status |->
            garbage_collect(s, s.time_limit, s.usage_limit, s.status[entity_id])]]

status_system(s) == status_gc_system(status_tick_system(s))

(* ---------------------------- objectives.py --------------------------- *)

exit_objective_fn(s, agent_id) ==
    /\ Has(s.position, agent_id)
    /\ entities_with_components_at(s, s.position[agent_id], s.exit) # {}

collect_required_objective_fn(s, agent_id) ==
    \A eid \in s.required : eid \notin s.collectible

collect_required_and_exit_objective_fn(s, agent_id) ==
    collect_required_objective_fn(s, agent_id) /\ exit_objective_fn(s, agent_id)

all_unlocked_objective_fn(s, agent_id) == DOMAIN s.locked = {}

all_pushable_at_exit_objective_fn(s, agent_id) ==
    \A pushable_id \in s.pushable :
        /\ Has(s.position, pushable_id)
        /\ entities_with_components_at(s, s.position[pushable_id], s.exit) # {}

OBJECTIVE_FN_REGISTRY(name, s, agent_id) ==
    CASE name \in {"default", "collect_exit"} ->
            collect_required_and_exit_objective_fn(s, agent_id)
      [] name = "collect" -> collect_required_objective_fn(s, agent_id)
      [] name = "exit" -> exit_objective_fn(s, agent_id)
      [] name = "unlock" -> all_unlocked_objective_fn(s, agent_id)
      [] name = "push" -> all_pushable_at_exit_objective_fn(s, agent_id)

(* ------------------------- systems/terminal.py ------------------------ *)

(* A variant of win_system that does not look at the dead store.          *)
win_system_ignores_dead(s, agent_id) ==
    IF ~is_valid_state(s, agent_id) \/ s.win \/ s.lose THEN s
    ELSE IF OBJECTIVE_FN_REGISTRY(s.objective_fn, s, agent_id)
    THEN [s EXCEPT !.win = TRUE]
    ELSE s

win_system(s, agent_id) ==
    IF ~is_valid_state(s, agent_id) \/ is_terminal_state(s, agent_id) THEN s
    ELSE IF OBJECTIVE_FN_REGISTRY(s.objective_fn, s, agent_id)
    THEN [s EXCEPT !.win = TRUE]
    ELSE s

(* A variant of lose_system that never reports a loss.                     *)
lose_system_off(s, agent_id) == s

(* A variant of lose_system that does not tell a finished game from a lost *)
(* one: it also sets lose when win is set.                                 *)
lose_system_when_won(s, agent_id) ==
    IF (agent_id \in s.dead \/ s.win) /\ ~s.lose THEN [s EXCEPT !.lose = TRUE] ELSE s

lose_system(s, agent_id) ==
    IF agent_id \in s.dead /\ ~s.lose THEN [s EXCEPT !.lose = TRUE] ELSE s

(* A variant of turn_system that sets lose at the limit even after a win.  *)
turn_system_ignores_win(s, agent_id) ==
    LET t == [s EXCEPT !.turn = s.turn + 1]
    IN  IF \E limit \in t.turn_limit : t.turn >= limit
        THEN [t EXCEPT !.lose = TRUE]
        ELSE t

turn_system(s, agent_id) ==
    LET t == [s EXCEPT !.turn = s.turn + 1]
    IN  IF (\E limit \in t.turn_limit : t.turn >= limit) /\ ~t.win
        THEN [t EXCEPT !.lose = TRUE]
        ELSE t

(* --------------------------- systems/tile.py -------------------------- *)

(* A variant of get_noncollectible_entities that keeps the collectible     *)
(* entities.                                                               *)
get_noncollectible_entities_all(s, pos, component_map) ==
    entities_at(s, pos) \cap DOMAIN component_map

get_noncollectible_entities(s, pos, component_map) ==
    (entities_at(s, pos) \cap DOMAIN component_map) \ s.collectible

tile_reward_system(s, eid) ==
    IF ~is_valid_state(s, eid) \/ is_terminal_state(s, eid) THEN s
    ELSE LET reward_ids == get_noncollectible_entities(s, s.position[eid], s.rewardable)
         IN  [s EXCEPT !.score = s.score + SumOver(s.rewardable, reward_ids)]

tile_cost_system(s, eid) ==
    IF ~is_valid_state(s, eid) \/ is_terminal_state(s, eid) THEN s
    ELSE LET cost_ids == get_noncollectible_entities(s, s.position[eid], s.cost)
         IN  [s EXCEPT !.score = s.score - SumOver(s.cost, cost_ids)]

(* ----------------------------- utils/gc.py ---------------------------- *)

(* A variant of compute_alive_entities that counts the positioned entities *)
(* only.                                                                   *)
compute_alive_entities_positioned(s) == DOMAIN s.position

compute_alive_entities(s) ==
    (DOMAIN s.position)
    \cup UNION {s.status[e] : e \in DOMAIN s.status}
    \cup UNION {s.inventory[e] : e \in DOMAIN s.inventory}

(* A variant of run_garbage_collector that removes nothing.                *)
run_garbage_collector_off(s) == s

(* Every pmap field is filtered by `k in alive`; the keys of trail are     *)
(* positions, never entity ids, so trail comes out empty.                  *)
run_garbage_collector(s) ==
    LET alive == compute_alive_entities(s)
    IN  [field \in DOMAIN s |->
            IF field \in MarkerStores THEN s[field] \cap alive
            ELSE IF field \in MapStores THEN Restrict(s[field], alive)
            ELSE IF field = "trail" THEN EmptyMap
            ELSE s[field]]

(* --------------------------- systems/push.py -------------------------- *)

(* Optional position: {} when the destination is out of bounds.            *)
compute_destination(s, current_pos, next_pos) ==
    LET dest_x == next_pos[1] + (next_pos[1] - current_pos[1])
        dest_y == next_pos[2] + (next_pos[2] - current_pos[2])
    IN  IF s.move_fn = "wrap"
        THEN {wrap_position(dest_x, dest_y, s.width, s.height)}
        ELSE IF is_in_bounds(s, <<dest_x, dest_y>>) THEN {<<dest_x, dest_y>>}
        ELSE {}

(* A variant of push_system in which a collidable entity on the destination *)
(* does not stop the push.                                                 *)
push_system_through_collidable(s, eid, next_pos) ==
    IF ~Has(s.position, eid) THEN s
    ELSE LET pushable_ids == entities_with_components_at(s, next_pos, s.pushable)
             push_to == compute_destination(s, s.position[eid], next_pos)
         IN  IF pushable_ids = {} \/ push_to = {} THEN s
             ELSE IF \E d \in push_to : is_blocked_at(s, d, FALSE, TRUE) THEN s
             ELSE [s EXCEPT !.position =
                     [e \in DOMAIN s.position |->
                         IF e \in pushable_ids THEN The(push_to)
                         ELSE IF e = eid THEN next_pos
                         ELSE s.position[e]]]

(* A variant of push_system that moves only one of the pushables found at  *)
(* next_pos.                                                               *)
push_system_single(s, eid, next_pos) ==
    IF ~Has(s.position, eid) THEN s
    ELSE LET pushable_ids == entities_with_components_at(s, next_pos, s.pushable)
             push_to == compute_destination(s, s.position[eid], next_pos)
         IN  IF pushable_ids = {} \/ push_to = {} THEN s
             ELSE IF \E d \in push_to : is_blocked_at(s, d, TRUE, TRUE) THEN s
             ELSE [s EXCEPT !.position =
                     [e \in DOMAIN s.position |->
                         IF e = Min(pushable_ids) THEN The(push_to)
                         ELSE IF e = eid THEN next_pos
                         ELSE s.position[e]]]

(* The add_trail_position call in the loop discards its result.            *)
push_system(s, eid, next_pos) ==
    IF ~Has(s.position, eid) THEN s
    ELSE LET pushable_ids == entities_with_components_at(s, next_pos, s.pushable)
             push_to == compute_destination(s, s.position[eid], next_pos)
         IN  IF pushable_ids = {} \/ push_to = {} THEN s
             ELSE IF \E d \in push_to : is_blocked_at(s, d, TRUE, TRUE) THEN s
             ELSE [s EXCEPT !.position =
                     [e \in DOMAIN s.position |->
                         IF e \in pushable_ids THEN The(push_to)
                         ELSE IF e = eid THEN next_pos
                         ELSE s.position[e]]]

(* -------------------------- systems/portal.py ------------------------- *)

portal_system_entity(s, augmented_trail, portal_id) ==
    IF ~Has(s.position, portal_id) \/ ~Has(s.portal, portal_id) THEN s
    ELSE IF ~Has(s.position, s.portal[portal_id]) THEN s
    ELSE LET portal_position == s.position[portal_id]
             pair_position == s.position[s.portal[portal_id]]
             entity_ids ==
                 (IF Has(augmented_trail, portal_position)
                  THEN augmented_trail[portal_position] ELSE {}) \cap s.collidable
             entering_entity_ids ==
                 {eid \in entity_ids :
                     /\ Has(s.position, eid)
                     /\ s.position[eid] = portal_position
                     /\ (~Has(s.prev_position, eid)
                         \/ s.prev_position[eid] # s.position[eid])}
         IN  IF is_blocked_at(s, pair_position, TRUE, TRUE) THEN s
             ELSE [s EXCEPT !.position =
                     [e \in DOMAIN s.position |->
                         IF e \in entering_entity_ids THEN pair_position
                         ELSE s.position[e]]]

RECURSIVE _portal_loop(_, _, _)
_portal_loop(s, augmented_trail, portal_ids) ==
    IF portal_ids = <<>> THEN s
    ELSE _portal_loop(portal_system_entity(s, augmented_trail, Head(portal_ids)),
                      augmented_trail, Tail(portal_ids))

portal_system(s, ord) ==
    _portal_loop(s, get_augmented_trail(s, s.collidable), Visit(DOMAIN s.portal, ord))

(* ------------------------ systems/pathfinding.py ---------------------- *)

neighbors == << <<0, 1>>, <<0, -1>>, <<1, 0>>, <<-1, 0>> >>

heuristic(a, b) ==
    (IF a[1] >= b[1] THEN a[1] - b[1] ELSE b[1] - a[1])
    + (IF a[2] >= b[2] THEN a[2] - b[2] ELSE b[2] - a[2])

(* A variant of get_valid_next_positions that treats cells holding a      *)
(* collidable entity as blocked.                                           *)
get_valid_next_positions_collidable(s, position) ==
    SelectSeq([i \in 1..4 |-> <<position[1] + neighbors[i][1],
                                position[2] + neighbors[i][2]>>],
              LAMBDA pos : is_in_bounds(s, pos) /\ ~is_blocked_at(s, pos, TRUE, TRUE))

get_valid_next_positions(s, position) ==
    SelectSeq([i \in 1..4 |-> <<position[1] + neighbors[i][1],
                                position[2] + neighbors[i][2]>>],
              LAMBDA pos : is_in_bounds(s, pos) /\ ~is_blocked_at(s, pos, FALSE, TRUE))

(* q: the search state [frontier, prev_pos, cost_so_far, tiebreaker];      *)
(* frontier holds <<priority, tiebreaker, position>> entries.              *)
RECURSIVE _astar_expand(_, _, _, _)
_astar_expand(q, goal, current, nexts) ==
    IF nexts = <<>> THEN q
    ELSE LET next_pos == Head(nexts)
             new_cost == q.cost_so_far[current] + 1
         IN  _astar_expand(
                 IF ~Has(q.cost_so_far, next_pos) \/ new_cost < q.cost_so_far[next_pos]
                 THEN [frontier |-> q.frontier \cup
                           {<<new_cost + heuristic(next_pos, goal), q.tiebreaker, next_pos>>},
                       prev_pos |-> Put(q.prev_pos, next_pos, current),
                       cost_so_far |-> Put(q.cost_so_far, next_pos, new_cost),
                       tiebreaker |-> q.tiebreaker + 1]
                 ELSE q,
                 goal, current, Tail(nexts))

RECURSIVE _astar_search(_, _, _)
_astar_search(s, q, goal) ==
    IF q.frontier = {} THEN q
    ELSE LET top == CHOOSE a \in q.frontier : \A b \in q.frontier :
                        a[1] < b[1] \/ (a[1] = b[1] /\ a[2] <= b[2])
             current == top[3]
             rest == [q EXCEPT !.frontier = q.frontier \ {top}]
         IN  IF current = goal THEN rest
             ELSE _astar_search(
                      s, _astar_expand(rest, goal, current,
                                       get_valid_next_positions(s, current)),
                      goal)

RECURSIVE _first_step(_, _, _)
_first_step(prev_pos, start, current) ==
    IF prev_pos[current] = start THEN current
    ELSE _first_step(prev_pos, start, prev_pos[current])

(* Both entities have a position here; entity_pathfinding raises the       *)
(* KeyError of state.position[target_id] before calling.                   *)
get_astar_next_position(s, entity_id, target_id) ==
    LET start == s.position[entity_id]
        goal == s.position[target_id]
        q == _astar_search(
                 s, [frontier |-> {<<0, 0, start>>}, prev_pos |-> EmptyMap,
                     cost_so_far |-> Put(EmptyMap, start, 0), tiebreaker |-> 1],
                 goal)
    IN  IF start = goal THEN start
        ELSE IF ~Has(q.prev_pos, goal) THEN start
        ELSE _first_step(q.prev_pos, start, goal)

vector_dot_product(a, b) == a[1] * b[1] + a[2] * b[2]

(* Index of the first maximal value. *)
argmax(values) ==
    CHOOSE i \in DOMAIN values :
        /\ \A j \in DOMAIN values : values[j] <= values[i]
        /\ \A j \in DOMAIN values : j < i => values[j] < values[i]

(* A variant of get_straight_line_next_position that lists the directions *)
(* as up, down, right, left.                                               *)
get_straight_line_next_position_up_first(s, entity_id, target_id) ==
    LET actions == << <<0, -1>>, <<0, 1>>, <<1, 0>>, <<-1, 0>> >>
        dvec == <<s.position[target_id][1] - s.position[entity_id][1],
                  s.position[target_id][2] - s.position[entity_id][2]>>
        values == [i \in 1..4 |-> vector_dot_product(actions[i], dvec)]
        best_action == actions[argmax(values)]
    IN  <<s.position[entity_id][1] + best_action[1],
          s.position[entity_id][2] + best_action[2]>>

(* A variant of get_straight_line_next_position that lists the directions *)
(* as right, left, down, up.                                               *)
get_straight_line_next_position_columns_first(s, entity_id, target_id) ==
    LET actions == << <<1, 0>>, <<-1, 0>>, <<0, 1>>, <<0, -1>> >>
        dvec == <<s.position[target_id][1] - s.position[entity_id][1],
                  s.position[target_id][2] - s.position[entity_id][2]>>
        values == [i \in 1..4 |-> vector_dot_product(actions[i], dvec)]
        best_action == actions[argmax(values)]
    IN  <<s.position[entity_id][1] + best_action[1],
          s.position[entity_id][2] + best_action[2]>>

get_straight_line_next_position(s, entity_id, target_id) ==
    LET dvec == <<s.position[target_id][1] - s.position[entity_id][1],
                  s.position[target_id][2] - s.position[entity_id][2]>>
        values == [i \in 1..4 |-> vector_dot_product(neighbors[i], dvec)]
        best_action == neighbors[argmax(values)]
    IN  <<s.position[entity_id][1] + best_action[1],
          s.position[entity_id][2] + best_action[2]>>

(* The usage_limit map returned by use_status_effect_if_present is bound   *)
(* to a local name only: the returned state keeps state.usage_limit.       *)
entity_pathfinding(s, usage_limit, entity_id) ==
    IF ~Has(s.position, entity_id) \/ ~Has(s.pathfinding, entity_id) THEN s
    ELSE IF s.pathfinding[entity_id].target = {} THEN s
    ELSE LET pathfinding_target == The(s.pathfinding[entity_id].target)
             used == IF Has(s.status, pathfinding_target)
                     THEN use_status_effect_if_present(
                              s.status[pathfinding_target], s.phasing,
                              s.time_limit, usage_limit)
                     ELSE [usage_limit |-> usage_limit, effect_id |-> {}]
             next_pos ==
                 IF s.pathfinding[entity_id].type = "STRAIGHT_LINE"
                 THEN get_straight_line_next_position(s, entity_id, pathfinding_target)
                 ELSE get_astar_next_position(s, entity_id, pathfinding_target)
         IN  IF used.effect_id # {} THEN s
             ELSE IF ~Has(s.position, pathfinding_target) THEN Raise("KeyError")
             ELSE IF is_blocked_at(s, next_pos, FALSE, TRUE) \/ ~is_in_bounds(s, next_pos)
             THEN s
             ELSE [s EXCEPT !.position = Put(s.position, entity_id, next_pos)]

RECURSIVE _pathfinding_loop(_, _, _)
_pathfinding_loop(s, usage_limit, entity_ids) ==
    IF entity_ids = <<>> \/ Raised(s) THEN s
    ELSE _pathfinding_loop(entity_pathfinding(s, usage_limit, Head(entity_ids)),
                           usage_limit, Tail(entity_ids))

pathfinding_system(s, ord) ==
    _pathfinding_loop(s, s.usage_limit, Visit(DOMAIN s.pathfinding, ord))

(* ------------------------------ moves.py ------------------------------ *)

cardinal_move_fn(s, eid, action) ==
    << <<s.position[eid][1] + Delta(action)[1], s.position[eid][2] + Delta(action)[2]>> >>

wrap_around_move_fn(s, eid, action) ==
    << <<(s.position[eid][1] + Delta(action)[1]) % s.width,
         (s.position[eid][2] + Delta(action)[2]) % s.height>> >>

mirror_move_fn(s, eid, action) ==
    cardinal_move_fn(s, eid, CASE action = "LEFT" -> "RIGHT"
                               [] action = "RIGHT" -> "LEFT"
                               [] OTHER -> action)

RECURSIVE _slide(_, _, _, _)
_slide(s, pos, d, path) ==
    LET test_pos == <<pos[1] + d[1], pos[2] + d[2]>>
    IN  IF is_in_bounds(s, test_pos) /\ ~is_blocked_at(s, test_pos, FALSE, FALSE)
        THEN _slide(s, test_pos, d, Append(path, test_pos))
        ELSE path

slippery_move_fn(s, eid, action) ==
    LET path == _slide(s, s.position[eid], Delta(action), <<>>)
    IN  IF path = <<>> THEN <<s.position[eid]>> ELSE path

can_move(s, pos) == is_in_bounds(s, pos) /\ ~is_blocked_at(s, pos, TRUE, TRUE)

RECURSIVE _fall(_, _)
_fall(s, path) ==
    LET below == <<path[Len(path)][1], path[Len(path)][2] + 1>>
    IN  IF can_move(s, below) THEN _fall(s, Append(path, below)) ELSE path

gravity_move_fn(s, eid, action) ==
    LET first == <<s.position[eid][1] + Delta(action)[1],
                   s.position[eid][2] + Delta(action)[2]>>
    IN  IF ~can_move(s, first) THEN <<s.position[eid]>> ELSE _fall(s, <<first>>)

(* windy_move_fn (a random.Random draw seeded by (seed, turn)) is not      *)
(* among the strategies of the modelled levels.                            *)
MOVE_FN_REGISTRY(name, s, eid, action) ==
    CASE name \in {"default", "cardinal"} -> cardinal_move_fn(s, eid, action)
      [] name = "wrap" -> wrap_around_move_fn(s, eid, action)
      [] name = "mirror" -> mirror_move_fn(s, eid, action)
      [] name = "slippery" -> slippery_move_fn(s, eid, action)
      [] name = "gravity" -> gravity_move_fn(s, eid, action)

(* ------------- systems whose source is not part of src/ --------------- *)

position_system(s) == [s EXCEPT !.prev_position = s.position]

(* The actual position update of a sub-step: refused when next_pos is out  *)
(* of bounds or holds a blocking or pushable entity (a failed push).       *)
movement_system(s, entity_id, next_pos) ==
    IF ~Has(s.position, entity_id) THEN s
    ELSE IF ~is_in_bounds(s, next_pos) \/ is_blocked_at(s, next_pos, FALSE, TRUE) THEN s
    ELSE [s EXCEPT !.position = Put(s.position, entity_id, next_pos)]

(* An entity with a moving behaviour steps once along its axis; when the   *)
(* cell ahead is out of bounds or blocked it stays and, with bounce,       *)
(* reverses its direction.                                                 *)
_moving_entity(s, entity_id) ==
    IF ~Has(s.position, entity_id) THEN s
    ELSE LET m == s.moving[entity_id]
             pos == s.position[entity_id]
             ahead == IF m.axis = "HORIZONTAL" THEN <<pos[1] + m.direction, pos[2]>>
                      ELSE <<pos[1], pos[2] + m.direction>>
         IN  IF is_in_bounds(s, ahead) /\ ~is_blocked_at(s, ahead, FALSE, TRUE)
             THEN [s EXCEPT !.position = Put(s.position, entity_id, ahead)]
             ELSE IF m.bounce
             THEN [s EXCEPT !.moving = Put(s.moving, entity_id,
                                           [m EXCEPT !.direction = 0 - m.direction])]
             ELSE s

RECURSIVE _moving_loop(_, _)
_moving_loop(s, entity_ids) ==
    IF entity_ids = <<>> THEN s
    ELSE _moving_loop(_moving_entity(s, Head(entity_ids)), Tail(entity_ids))

moving_system(s, ord) == _moving_loop(s, Visit(DOMAIN s.moving, ord))

(* Pick-up: collectibles on the entity's cell go to its inventory, or, if  *)
(* they carry an effect that is still valid, to its status; a rewardable   *)
(* collectible adds its amount to score.                                   *)
collectible_system(s, entity_id) ==
    IF ~Has(s.position, entity_id) THEN s
    ELSE LET here == entities_with_components_at(s, s.position[entity_id], s.collectible)
             effects == {c \in here : has_effect(s, c)}
             items == IF Has(s.inventory, entity_id) THEN here \ effects ELSE {}
             powerups == IF Has(s.status, entity_id)
                         THEN {c \in effects : valid_effect(s, c)} ELSE {}
             taken == items \cup powerups
         IN  IF taken = {} THEN s
             ELSE [s EXCEPT
                     !.inventory = IF items = {} THEN @
                                   ELSE Put(@, entity_id, @[entity_id] \cup items),
                     !.status = IF powerups = {} THEN @
                                ELSE Put(@, entity_id, @[entity_id] \cup powerups),
                     !.score = @ + SumOver(s.rewardable, taken \cap DOMAIN s.rewardable),
                     !.collectible = @ \ taken,
                     !.position = Restrict(@, (DOMAIN @) \ taken)]

(* Use-key: every locked entity on the entity's cell or a four-neighbour   *)
(* cell is unlocked by one inventory key with the same key id; the key is  *)
(* consumed (removed from the inventory and from the key store).           *)
RECURSIVE _unlock_loop(_, _, _)
_unlock_loop(s, entity_id, locked_ids) ==
    IF locked_ids = <<>> THEN s
    ELSE LET door == Head(locked_ids)
             matching == {k \in s.inventory[entity_id] \cap DOMAIN s.key :
                             s.key[k] = s.locked[door]}
         IN  _unlock_loop(
                 IF matching = {} THEN s
                 ELSE [s EXCEPT !.locked = Drop(@, door),
                                !.blocking = @ \ {door},
                                !.key = Drop(@, Min(matching)),
                                !.inventory = Put(@, entity_id, @[entity_id] \ {Min(matching)})],
                 entity_id, Tail(locked_ids))

unlock_system(s, entity_id) ==
    IF ~Has(s.position, entity_id) \/ ~Has(s.inventory, entity_id) THEN s
    ELSE LET pos == s.position[entity_id]
             near == {pos} \cup {<<pos[1] + neighbors[i][1], pos[2] + neighbors[i][2]>> :
                                    i \in 1..4}
             locked_ids == {d \in DOMAIN s.locked :
                               Has(s.position, d) /\ s.position[d] \in near}
         IN  _unlock_loop(s, entity_id, Visit(locked_ids, IterOrder))

(* ------------------------------- step.py ------------------------------ *)

_substep(s, action, agent_id, next_pos) ==
    movement_system(push_system(s, agent_id, next_pos), agent_id, next_pos)

_after_substep(s, action, agent_id, ord) ==
    IF ~Has(s.position, agent_id) THEN Raise("KeyError")
    ELSE LET s1 == add_trail_position(s, agent_id, s.position[agent_id])
             s2 == portal_system(s1, ord)
             s3 == damage_system(s2, ord)
             finish(t) ==
                 IF Raised(t) THEN t
                 ELSE lose_system(
                          win_system(position_system(tile_reward_system(t, agent_id)),
                                     agent_id),
                          agent_id)
         IN  finish(s3)

(* The inner loop of _step_move; stop is TRUE when the function returns    *)
(* from inside the loop (a sub-step left the state unchanged, or raised).  *)
RECURSIVE _substep_loop(_, _, _, _, _)
_substep_loop(s, action, agent_id, positions, ord) ==
    IF positions = <<>> THEN [st |-> s, stop |-> FALSE]
    ELSE LET after(t) ==
                 IF Raised(t) \/ t = s THEN [st |-> t, stop |-> TRUE]
                 ELSE _substep_loop(t, action, agent_id, Tail(positions), ord)
         IN  after(_after_substep(_substep(s, action, agent_id, Head(positions)),
                                  action, agent_id, ord))

RECURSIVE _move_loop(_, _, _, _, _, _)
_move_loop(s, action, agent_id, move_count, current_pos, ord) ==
    IF move_count <= 0 THEN s
    ELSE LET positions(found) == IF found = <<>> THEN <<current_pos>> ELSE found
             after(r) ==
                 IF r.stop THEN r.st
                 ELSE _move_loop(r.st, action, agent_id, move_count - 1, current_pos, ord)
         IN  after(_substep_loop(s, action, agent_id,
                                 positions(MOVE_FN_REGISTRY(s.move_fn, s, agent_id, action)),
                                 ord))

(* A variant of _step_move that takes a usage from the speed effect but    *)
(* moves once.                                                             *)
_step_move_once(s, action, agent_id, ord) ==
    IF ~Has(s.position, agent_id) THEN s
    ELSE LET used == IF Has(s.status, agent_id)
                     THEN use_status_effect_if_present(
                              s.status[agent_id], DOMAIN s.speed,
                              s.time_limit, s.usage_limit)
                     ELSE [usage_limit |-> s.usage_limit, effect_id |-> {}]
         IN  _move_loop([s EXCEPT !.usage_limit = used.usage_limit], action, agent_id,
                        1, s.position[agent_id], ord)

_step_move(s, action, agent_id, ord) ==
    IF ~Has(s.position, agent_id) THEN s
    ELSE LET used == IF Has(s.status, agent_id)
                     THEN use_status_effect_if_present(
                              s.status[agent_id], DOMAIN s.speed,
                              s.time_limit, s.usage_limit)
                     ELSE [usage_limit |-> s.usage_limit, effect_id |-> {}]
             move_count == IF used.effect_id # {} THEN s.speed[The(used.effect_id)] ELSE 1
         IN  _move_loop([s EXCEPT !.usage_limit = used.usage_limit], action, agent_id,
                        move_count, s.position[agent_id], ord)

_step_usekey(s, action, agent_id) == unlock_system(s, agent_id)

_step_pickup(s, action, agent_id) == collectible_system(s, agent_id)

_step_wait(s, action, agent_id) == s

_after_step(s, agent_id) ==
    run_garbage_collector(
        status_gc_system(turn_system(tile_cost_system(s, agent_id), agent_id)))

(* A variant of first_agent that takes the last agent in visiting order.    *)
first_agent_last(s, ord) ==
    IF s.agent = {} THEN {}
    ELSE {Visit(s.agent, ord)[Len(Visit(s.agent, ord))]}

(* next(iter(state.agent.keys()), None): the first agent in visiting order, *)
(* as an Optional.                                                         *)
first_agent(s, ord) ==
    IF s.agent = {} THEN {} ELSE {Head(Visit(s.agent, ord))}

(* The acting entity of a call, as an Optional: the agent_id argument when  *)
(* given, else the first agent (none when the agent store is empty).       *)
acting_entity(s, agent_arg, ord) ==
    IF agent_arg # {} THEN agent_arg ELSE first_agent(s, ord)

(* A variant of _pipeline that keeps the damage hits and the trail of the   *)
(* world it is given.                                                      *)
_pipeline_no_reset(s, action, agent_id, ord) ==
    LET tick(t) == IF Raised(t) THEN t ELSE status_tick_system(t)
        act(t) ==
            IF Raised(t) THEN t
            ELSE CASE action \in MOVE_ACTIONS -> _step_move(t, action, agent_id, ord)
                   [] action = "USE_KEY" -> _step_usekey(t, action, agent_id)
                   [] action = "PICK_UP" -> _step_pickup(t, action, agent_id)
                   [] action = "WAIT" -> _step_wait(t, action, agent_id)
        after(t) ==
            IF Raised(t) \/ action \in MOVE_ACTIONS THEN t
            ELSE _after_substep(t, action, agent_id, ord)
        finish(t) == IF Raised(t) THEN t ELSE _after_step(t, agent_id)
    IN  finish(after(act(tick(
            pathfinding_system(moving_system(position_system(s), ord), ord)))))

(* A variant of _pipeline that ticks the time limits after the action has *)
(* been dispatched.                                                        *)
_pipeline_tick_last(s, action, agent_id, ord) ==
    LET s0 == [s EXCEPT !.damage_hits = {}, !.trail = EmptyMap]
        tick(t) == IF Raised(t) THEN t ELSE status_tick_system(t)
        act(t) ==
            IF Raised(t) THEN t
            ELSE CASE action \in MOVE_ACTIONS -> _step_move(t, action, agent_id, ord)
                   [] action = "USE_KEY" -> _step_usekey(t, action, agent_id)
                   [] action = "PICK_UP" -> _step_pickup(t, action, agent_id)
                   [] action = "WAIT" -> _step_wait(t, action, agent_id)
        after(t) ==
            IF Raised(t) \/ action \in MOVE_ACTIONS THEN t
            ELSE _after_substep(t, action, agent_id, ord)
        finish(t) == IF Raised(t) THEN t ELSE _after_step(t, agent_id)
    IN  finish(tick(after(act(
            pathfinding_system(moving_system(position_system(s0), ord), ord)))))

(* The systems step runs once the guards have let the call through.        *)
_pipeline(s, action, agent_id, ord) ==
    LET s0 == [s EXCEPT !.damage_hits = {}, !.trail = EmptyMap]
        tick(t) == IF Raised(t) THEN t ELSE status_tick_system(t)
        act(t) ==
            IF Raised(t) THEN t
            ELSE CASE action \in MOVE_ACTIONS -> _step_move(t, action, agent_id, ord)
                   [] action = "USE_KEY" -> _step_usekey(t, action, agent_id)
                   [] action = "PICK_UP" -> _step_pickup(t, action, agent_id)
                   [] action = "WAIT" -> _step_wait(t, action, agent_id)
        after(t) ==
            IF Raised(t) \/ action \in MOVE_ACTIONS THEN t
            ELSE _after_substep(t, action, agent_id, ord)
        finish(t) == IF Raised(t) THEN t ELSE _after_step(t, agent_id)
    IN  finish(after(act(tick(
            pathfinding_system(moving_system(position_system(s0), ord), ord)))))

(* A variant of step without the terminal-state guard: only the validity   *)
(* of the state is checked before the pipeline runs.                       *)
step_no_terminal_guard(s, action, agent_arg, ord) ==
    LET guarded(agent_id) ==
            IF agent_id \in s.dead THEN [s EXCEPT !.lose = TRUE]
            ELSE IF ~is_valid_state(s, agent_id) THEN s
            ELSE _pipeline(s, action, agent_id, ord)
    IN  IF acting_entity(s, agent_arg, ord) = {} THEN Raise("ValueError")
        ELSE guarded(The(acting_entity(s, agent_arg, ord)))

(* A variant of step that tests for a terminal state before it tests for a *)
(* dead acting entity, so that a dead entity's call returns the input.     *)
step_terminal_before_dead(s, action, agent_arg, ord) ==
    LET guarded(agent_id) ==
            IF ~is_valid_state(s, agent_id) \/ is_terminal_state(s, agent_id) THEN s
            ELSE IF agent_id \in s.dead THEN [s EXCEPT !.lose = TRUE]
            ELSE _pipeline(s, action, agent_id, ord)
    IN  IF acting_entity(s, agent_arg, ord) = {} THEN Raise("ValueError")
        ELSE guarded(The(acting_entity(s, agent_arg, ord)))

(* A variant of step whose dead-entity branch also clears win.             *)
step_dead_clears_win(s, action, agent_arg, ord) ==
    LET guarded(agent_id) ==
            IF agent_id \in s.dead THEN [s EXCEPT !.lose = TRUE, !.win = FALSE]
            ELSE IF ~is_valid_state(s, agent_id) \/ is_terminal_state(s, agent_id) THEN s
            ELSE _pipeline(s, action, agent_id, ord)
    IN  IF acting_entity(s, agent_arg, ord) = {} THEN Raise("ValueError")
        ELSE guarded(The(acting_entity(s, agent_arg, ord)))

(* agent_arg is the Optional agent_id argument. *)
step(s, action, agent_arg, ord) ==
    LET guarded(agent_id) ==
            IF agent_id \in s.dead THEN [s EXCEPT !.lose = TRUE]
            ELSE IF ~is_valid_state(s, agent_id) \/ is_terminal_state(s, agent_id) THEN s
            ELSE _pipeline(s, action, agent_id, ord)
    IN  IF acting_entity(s, agent_arg, ord) = {} THEN Raise("ValueError")
        ELSE guarded(The(acting_entity(s, agent_arg, ord)))

(* ------------------------------ levels -------------------------------- *)

(* Hazard arena on the 3x2 grid: agent 1 (health h) at (0,0), hazard 2     *)
(* (amount d2) at p2, hazard 3 (amount 1, lethal or not) at (1,0), exit 6  *)
(* at (2,0); optionally immunity effect 4 and speed effect 5 (x2) in the   *)
(* agent's status, each with an optional usage limit.                      *)
HazardLevel(h, d2, p2, lethal3, imm, spd) ==
    [State0 EXCEPT
        !.objective_fn = "exit",
        !.agent = {1},
        !.collidable = {1, 2, 3},
        !.health = (1 :> h),
        !.damage = (2 :> d2) @@ (3 :> 1),
        !.lethal_damage = IF lethal3 THEN {3} ELSE {},
        !.exit = {6},
        !.position = (1 :> <<0, 0>>) @@ (2 :> p2) @@ (3 :> <<1, 0>>) @@ (6 :> <<2, 0>>),
        !.status = (1 :> ((IF imm = "none" THEN {} ELSE {4})
                          \cup (IF spd = "none" THEN {} ELSE {5}))),
        !.immunity = IF imm = "none" THEN {} ELSE {4},
        !.speed = IF spd = "none" THEN EmptyMap ELSE (5 :> 2),
        !.usage_limit = (IF imm = "usage" THEN (4 :> 1) ELSE EmptyMap)
                        @@ (IF spd = "usage" THEN (5 :> 1) ELSE EmptyMap)]

HazardLevels ==
    {HazardLevel(h, d2, p2, lethal3, imm, spd) :
        h \in {2, 5}, d2 \in {-1, 1, 3}, p2 \in {<<0, 0>>, <<1, 0>>},
        lethal3 \in BOOLEAN, imm \in {"none", "usage"}, spd \in {"none", "free"}}

(* Chase: agent 1 at (0,0) with a time-limited phasing effect 5, wall 3 at *)
(* (1,1), monster 2 at (2,0) seeking the agent, patrol 4 moving along the  *)
(* bottom row, exit 6 at (0,1); a turn limit may be set.                   *)
ChaseLevel(type, limit) ==
    [State0 EXCEPT
        !.objective_fn = "exit",
        !.agent = {1},
        !.collidable = {1, 2, 4},
        !.blocking = {3},
        !.health = (1 :> 2),
        !.damage = (2 :> 1) @@ (4 :> 3),
        !.pathfinding = (2 :> [target |-> {1}, type |-> type]),
        !.moving = (4 :> [axis |-> "HORIZONTAL", direction |-> -1, bounce |-> TRUE]),
        !.exit = {6},
        !.phasing = {5},
        !.time_limit = (5 :> 1),
        !.status = (1 :> {5}),
        !.position = (1 :> <<0, 0>>) @@ (2 :> <<2, 0>>) @@ (3 :> <<1, 1>>)
                     @@ (4 :> <<2, 1>>) @@ (6 :> <<0, 1>>),
        !.turn_limit = limit]

ChaseLevels ==
    {ChaseLevel(type, limit) : type \in {"PATH", "STRAIGHT_LINE"}, limit \in {{}, {1}}}

(* Key and door: agent 1 (empty inventory) stands on key 2 (collectible,   *)
(* key id k); door 3 (locked "red", blocking) at (1,0); pushable box 4 at  *)
(* (1,1); reward tile 5 at (0,1); exit 6 at (2,0).  With charm, the key    *)
(* carries a status list holding the immunity effect 5 instead of the      *)
(* reward tile.                                                            *)
KeyLevel(k, charm, mv) ==
    [State0 EXCEPT
        !.move_fn = mv,
        !.agent = {1},
        !.collidable = {1, 3, 4},
        !.blocking = {3},
        !.pushable = {4},
        !.collectible = {2},
        !.required = {2},
        !.key = (2 :> k),
        !.locked = (3 :> "red"),
        !.inventory = (1 :> {}),
        !.exit = {6},
        !.rewardable = IF charm THEN EmptyMap ELSE (5 :> 4),
        !.cost = IF charm THEN EmptyMap ELSE (5 :> 1),
        !.immunity = IF charm THEN {5} ELSE {},
        !.status = IF charm THEN (2 :> {5}) ELSE EmptyMap,
        !.position = (1 :> <<0, 0>>) @@ (2 :> <<0, 0>>) @@ (3 :> <<1, 0>>)
                     @@ (4 :> <<1, 1>>) @@ (6 :> <<2, 0>>)
                     @@ (IF charm THEN EmptyMap ELSE (5 :> <<0, 1>>))]

(* The last two families put a second collectible 5 on the agent's cell:  *)
(* a gem (rewardable, not a key), or a second key with the same key id.    *)
KeyLevels ==
    {KeyLevel(k, charm, mv) :
        k \in {"red", "blue"}, charm \in BOOLEAN, mv \in {"cardinal", "wrap", "slippery"}}
    \cup {[KeyLevel(k, FALSE, "cardinal") EXCEPT
              !.collectible = {2, 5}, !.cost = EmptyMap,
              !.position = Put(@, 5, <<0, 0>>)] : k \in {"red", "blue"}}
    \cup {[KeyLevel(k, FALSE, "cardinal") EXCEPT
              !.collectible = {2, 5}, !.cost = EmptyMap, !.rewardable = EmptyMap,
              !.key = (2 :> k) @@ (5 :> k),
              !.position = Put(@, 5, <<0, 0>>)] : k \in {"red", "blue"}}

(* Two portals 2 <-> 3 at (1,0) and (2,1), agent 1 at (0,0), exit 6 at     *)
(* (2,0), under the mirror and gravity strategies.                         *)
PortalLevel(mv) ==
    [State0 EXCEPT
        !.move_fn = mv,
        !.objective_fn = "exit",
        !.agent = {1},
        !.collidable = {1},
        !.portal = (2 :> 3) @@ (3 :> 2),
        !.exit = {6},
        !.position = (1 :> <<0, 0>>) @@ (2 :> <<1, 0>>) @@ (3 :> <<2, 1>>)
                     @@ (6 :> <<2, 0>>)]

PortalLevels == {PortalLevel(mv) : mv \in {"cardinal", "mirror", "gravity"}}

(* Worlds a caller may hand to step that the pipeline refuses: no agent at *)
(* all, an agent that is already dead, an agent without a position, and a  *)
(* world that is already won or lost.                                      *)
EdgeLevels ==
    LET base == HazardLevel(5, 1, <<0, 0>>, FALSE, "none", "none")
    IN  { [base EXCEPT !.agent = {}],
          [base EXCEPT !.dead = {1}],
          [base EXCEPT !.position = Drop(@, 1)],
          [base EXCEPT !.agent = {1, 2}, !.health = (1 :> 5) @@ (2 :> 5),
                       !.dead = {2}],
          [base EXCEPT !.win = TRUE],
          [base EXCEPT !.lose = TRUE] }

(* Worlds handed to damage_system directly, as the damage tests build      *)
(* them: agent 1 (health h) at (0,0) with damager 2 (amount d2) on its      *)
(* cell, damager 3 (amount 3, lethal or not) at p3 and monster 4 (amount 7, *)
(* health 5) at p4; optionally an immunity effect 5 in the agent's status,  *)
(* with one use or unlimited; prev_position empty or equal to position.     *)
DamageLevel(h, d2, lethal3, p3, p4, imm, moved) ==
    LET position == (1 :> <<0, 0>>) @@ (2 :> <<0, 0>>) @@ (3 :> p3) @@ (4 :> p4)
    IN  [State0 EXCEPT
            !.objective_fn = "exit",
            !.agent = {1},
            !.collidable = {1, 2, 3, 4},
            !.health = (1 :> h) @@ (4 :> 5),
            !.damage = (2 :> d2) @@ (3 :> 3) @@ (4 :> 7),
            !.lethal_damage = IF lethal3 THEN {3} ELSE {},
            !.position = position,
            !.prev_position = IF moved THEN position ELSE EmptyMap,
            !.status = (1 :> (IF imm = "none" THEN {} ELSE {5})),
            !.immunity = IF imm = "none" THEN {} ELSE {5},
            !.usage_limit = IF imm = "usage" THEN (5 :> 1) ELSE EmptyMap]

DamageLevels ==
    {DamageLevel(h, d2, lethal3, p3, p4, imm, moved) :
        h \in {10, 20}, d2 \in {-1, 0, 2}, lethal3 \in BOOLEAN,
        p3 \in {<<0, 0>>, <<1, 0>>}, p4 \in {<<0, 0>>, <<1, 0>>},
        imm \in {"none", "usage", "free"}, moved \in BOOLEAN}

(* Portal worlds on the 3x2 grid: agent 1 at (0,0); portals 2 and 3 wired  *)
(* as a reciprocal pair, or portals 2, 3 and 6 wired as a chain in either  *)
(* direction; lay gives the cells of portals 2, 3 and 6; optionally box 4  *)
(* (pushable, collidable) and wall 5 (blocking), each on some cell.        *)
(* Everything stands still at the start (prev_position = position).       *)
PortalWorld(wiring, lay, box, wall, mv) ==
    LET chained == wiring # "pair"
        position == (1 :> <<0, 0>>) @@ (2 :> lay[1]) @@ (3 :> lay[2])
                    @@ (IF chained THEN (6 :> lay[3]) ELSE EmptyMap)
                    @@ (IF box = {} THEN EmptyMap ELSE (4 :> The(box)))
                    @@ (IF wall = {} THEN EmptyMap ELSE (5 :> The(wall)))
    IN  [State0 EXCEPT
            !.move_fn = mv,
            !.objective_fn = "collect",
            !.agent = {1},
            !.collidable = {1} \cup (IF box = {} THEN {} ELSE {4}),
            !.pushable = IF box = {} THEN {} ELSE {4},
            !.blocking = IF wall = {} THEN {} ELSE {5},
            !.portal = CASE wiring = "pair" -> (2 :> 3) @@ (3 :> 2)
                         [] wiring = "chain" -> (2 :> 3) @@ (3 :> 6) @@ (6 :> 2)
                         [] wiring = "back" -> (2 :> 6) @@ (6 :> 3) @@ (3 :> 2),
            !.position = position,
            !.prev_position = position]

PortalWorlds ==
    LET layouts == { << <<1, 0>>, <<2, 1>>, <<1, 1>> >>,
                     << <<1, 0>>, <<0, 1>>, <<1, 1>> >>,
                     << <<2, 1>>, <<1, 0>>, <<1, 1>> >>,
                     << <<1, 0>>, <<2, 0>>, <<0, 1>> >> }
    IN  {PortalWorld(wiring, lay, box, wall, mv) :
            wiring \in {"pair", "chain", "back"}, lay \in layouts,
            box \in {{}, {<<1, 0>>}, {<<2, 0>>}}, wall \in {{}, {<<2, 1>>}},
            mv \in {"cardinal", "wrap"}}

(* Push worlds on the 3x2 grid, as the push tests build them: agent 1      *)
(* (collidable, empty inventory) at a, box 2 (pushable, collidable) at     *)
(* (1,0), optionally a second box 4 on the same cell, and optionally one   *)
(* more entity 3 at c: a box, a wall (blocking, collidable), another       *)
(* agent (collidable), a coin (collectible) or an exit.                    *)
PushWorld(a, other, c, stacked, mv) ==
    [State0 EXCEPT
        !.move_fn = mv,
        !.agent = {1} \cup (IF other = "agent" THEN {3} ELSE {}),
        !.inventory = (1 :> {}) @@ (IF other = "agent" THEN (3 :> {}) ELSE EmptyMap),
        !.pushable = {2} \cup (IF stacked THEN {4} ELSE {})
                     \cup (IF other = "box" THEN {3} ELSE {}),
        !.blocking = IF other = "wall" THEN {3} ELSE {},
        !.collidable = {1, 2} \cup (IF stacked THEN {4} ELSE {})
                       \cup (IF other \in {"box", "wall", "agent"} THEN {3} ELSE {}),
        !.collectible = IF other = "coin" THEN {3} ELSE {},
        !.exit = IF other = "exit" THEN {3} ELSE {},
        !.position = (1 :> a) @@ (2 :> <<1, 0>>)
                     @@ (IF stacked THEN (4 :> <<1, 0>>) ELSE EmptyMap)
                     @@ (IF other = "none" THEN EmptyMap ELSE (3 :> c))]

PushWorlds ==
    {PushWorld(a, other, c, stacked, mv) :
        a \in {<<0, 0>>, <<1, 1>>},
        other \in {"none", "box", "wall", "agent", "coin", "exit"},
        c \in {<<2, 0>>, <<0, 1>>}, stacked \in BOOLEAN, mv \in {"cardinal", "wrap"}}

(* Effect worlds, as the power-up tests build them: agent 1 at (0,0)       *)
(* holds immunity 3 (time limit n3) and phasing 4 (unlimited, time limit   *)
(* 2, or usage limit 0 or 1); holder 2 at (1,0) holds speed 5 (x2, time    *)
(* limit n5); optionally the agent's status also lists 6, an id that is in *)
(* none of the effect stores.                                              *)
StatusWorld(n3, kind4, n5, orphan) ==
    [State0 EXCEPT
        !.agent = {1},
        !.inventory = (1 :> {}),
        !.collidable = {1, 2},
        !.position = (1 :> <<0, 0>>) @@ (2 :> <<1, 0>>),
        !.immunity = {3},
        !.phasing = {4},
        !.speed = (5 :> 2),
        !.time_limit = (3 :> n3) @@ (5 :> n5)
                       @@ (IF kind4 = "time" THEN (4 :> 2) ELSE EmptyMap),
        !.usage_limit = CASE kind4 = "used" -> (4 :> 0)
                          [] kind4 = "usage" -> (4 :> 1)
                          [] OTHER -> EmptyMap,
        !.status = (1 :> ({3, 4} \cup (IF orphan THEN {6} ELSE {}))) @@ (2 :> {5})]

StatusWorlds ==
    {StatusWorld(n3, kind4, n5, orphan) :
        n3 \in {2, 3}, kind4 \in {"free", "time", "used", "usage"},
        n5 \in {1, 4}, orphan \in BOOLEAN}

(* Terminal worlds, as the terminal tests build them: agent 1 at a, exit 2 *)
(* at (1,1) and optionally a second exit 5 at (0,0), required items 3 and  *)
(* 4 either still on the grid or in the agent's inventory; the agent may   *)
(* be dead, the state may already be won or lost, and the agent store or   *)
(* the agent's position may be missing.                                    *)
TerminalWorld(a, two_exits, collected, agent_dead, flag, missing, objective) ==
    [State0 EXCEPT
        !.objective_fn = objective,
        !.agent = IF missing = "agent" THEN {} ELSE {1},
        !.exit = {2} \cup (IF two_exits THEN {5} ELSE {}),
        !.required = {3, 4},
        !.collectible = IF collected THEN {} ELSE {3, 4},
        !.inventory = (1 :> (IF collected THEN {3, 4} ELSE {})),
        !.dead = IF agent_dead THEN {1} ELSE {},
        !.win = (flag = "win"),
        !.lose = (flag = "lose"),
        !.position = (IF missing = "position" THEN EmptyMap ELSE (1 :> a))
                     @@ (2 :> <<1, 1>>)
                     @@ (IF two_exits THEN (5 :> <<0, 0>>) ELSE EmptyMap)
                     @@ (IF collected THEN EmptyMap
                         ELSE (3 :> <<2, 0>>) @@ (4 :> <<2, 1>>))]

TerminalWorlds ==
    {TerminalWorld(a, two_exits, collected, agent_dead, flag, missing, objective) :
        a \in {<<0, 0>>, <<1, 1>>}, two_exits \in BOOLEAN, collected \in BOOLEAN,
        agent_dead \in BOOLEAN, flag \in {"", "win", "lose"},
        missing \in {"", "agent", "position"},
        objective \in {"default", "exit", "collect"}}

(* Chase worlds on a 3x3 grid: seeker 2 (pathfinding of the given type,    *)
(* collidable) at sp chases agent 1, whose position tp may be missing;     *)
(* obstacle 3 (a wall, a pushable box, or a collidable-only crate) and     *)
(* wall 4 are optional; the agent's status may list phasing effect 5       *)
(* (unlimited, usage limit 1 or 2, or used up); with gate, portal 6 lies   *)
(* on the seeker's cell and names 5, which has no position, as its pair.   *)
PathWorlds ==
    LET PathWorld(type, sp, tp, kind3, w3, w4, charm, gate) ==
            [State0 EXCEPT
                !.height = 3,
                !.objective_fn = "collect",
                !.agent = {1},
                !.inventory = (1 :> {}),
                !.health = (1 :> 2),
                !.damage = (2 :> 1),
                !.pathfinding = (2 :> [target |-> {1}, type |-> type]),
                !.collidable = {1, 2} \cup (IF w3 # {} /\ kind3 # "wall" THEN {3} ELSE {}),
                !.pushable = IF w3 # {} /\ kind3 = "box" THEN {3} ELSE {},
                !.blocking = (IF w3 # {} /\ kind3 = "wall" THEN {3} ELSE {})
                             \cup (IF w4 # {} THEN {4} ELSE {}),
                !.phasing = IF charm = "none" THEN {} ELSE {5},
                !.usage_limit = CASE charm = "once" -> (5 :> 1)
                                  [] charm = "twice" -> (5 :> 2)
                                  [] charm = "used" -> (5 :> 0)
                                  [] OTHER -> EmptyMap,
                !.status = IF charm = "none" THEN EmptyMap ELSE (1 :> {5}),
                !.portal = IF gate THEN (6 :> 5) ELSE EmptyMap,
                !.position = (2 :> sp)
                             @@ (IF tp = {} THEN EmptyMap ELSE (1 :> The(tp)))
                             @@ (IF w3 = {} THEN EmptyMap ELSE (3 :> The(w3)))
                             @@ (IF w4 = {} THEN EmptyMap ELSE (4 :> The(w4)))
                             @@ (IF gate THEN (6 :> sp) ELSE EmptyMap)]
    IN  {PathWorld(type, sp, tp, kind3, w3, w4, charm, gate) :
            type \in {"PATH", "STRAIGHT_LINE"},
            sp \in {<<0, 0>>, <<2, 0>>, <<2, 2>>},
            tp \in {{}, {<<0, 0>>}, {<<0, 2>>}, {<<2, 1>>}},
            kind3 \in {"wall", "box", "crate"},
            w3 \in {{}, {<<1, 0>>}, {<<1, 1>>}},
            w4 \in {{}, {<<0, 1>>}, {<<1, 2>>}},
            charm \in {"none", "free", "once", "twice", "used"},
            gate \in BOOLEAN}

(* Move worlds on the 3x2 grid: agent 1 at (0,0) whose status lists        *)
(* immunity 2 (unlimited) and the speed effects 3 (x2) and 4 (x3), each    *)
(* absent, unlimited, usage-limited (1 or 2 uses left, or used up) or out  *)
(* of time; wall 5 and box 6 are optional.                                 *)
MoveWorlds ==
    LET limits(kind, f) ==
            CASE kind = "once" -> (f :> 1)
              [] kind \in {"twice", "both"} -> (f :> 2)
              [] kind = "used" -> (f :> 0)
              [] OTHER -> EmptyMap
        times(kind, f) ==
            CASE kind = "expired" -> (f :> 0)
              [] kind \in {"timed", "both"} -> (f :> 2)
              [] OTHER -> EmptyMap
        MoveWorld(mv, kind3, kind4, wall, box) ==
            [State0 EXCEPT
                !.move_fn = mv,
                !.objective_fn = "exit",
                !.agent = {1},
                !.inventory = (1 :> {}),
                !.collidable = {1} \cup (IF box = {} THEN {} ELSE {6}),
                !.pushable = IF box = {} THEN {} ELSE {6},
                !.blocking = IF wall = {} THEN {} ELSE {5},
                !.immunity = {2},
                !.speed = (IF kind3 = "none" THEN EmptyMap ELSE (3 :> 2))
                          @@ (IF kind4 = "none" THEN EmptyMap ELSE (4 :> 3)),
                !.usage_limit = limits(kind3, 3) @@ limits(kind4, 4),
                !.time_limit = times(kind3, 3) @@ times(kind4, 4),
                !.status = (1 :> ({2} \cup (IF kind3 = "none" THEN {} ELSE {3})
                                      \cup (IF kind4 = "none" THEN {} ELSE {4}))),
                !.position = (1 :> <<0, 0>>)
                             @@ (IF wall = {} THEN EmptyMap ELSE (5 :> The(wall)))
                             @@ (IF box = {} THEN EmptyMap ELSE (6 :> The(box)))]
    IN  {MoveWorld(mv, kind3, kind4, wall, box) :
            mv \in {"cardinal", "wrap", "slippery"},
            kind3 \in {"none", "free", "once", "twice", "used", "expired", "timed", "both"},
            kind4 \in {"none", "free", "once", "used"},
            wall \in {{}, {<<2, 0>>}, {<<1, 0>>}},
            box \in {{}, {<<1, 1>>}}}

(* Crossing worlds handed to damage_system in the middle of a turn, on one *)
(* row of the grid: agent 1 (health 5) went from tprev to tcur and damager *)
(* 2 (amount 2, lethal or not) from dprev to dcur; the trail holds, for    *)
(* each of them, nothing, its current cell, or both its cells; optionally  *)
(* damager 3 (amount 1) stands still on the agent's cell.                  *)
CrossWorlds ==
    LET visited(kind, a, b) ==
            CASE kind = "none" -> {} [] kind = "here" -> {b} [] OTHER -> {a, b}
        CrossWorld(tprev, tcur, dprev, dcur, tkind, dkind, lethal2, extra) ==
            [State0 EXCEPT
                !.objective_fn = "exit",
                !.agent = {1},
                !.collidable = {1, 2},
                !.health = (1 :> 5),
                !.damage = (2 :> 2) @@ (IF extra THEN (3 :> 1) ELSE EmptyMap),
                !.lethal_damage = IF lethal2 THEN {2} ELSE {},
                !.position = (1 :> tcur) @@ (2 :> dcur)
                             @@ (IF extra THEN (3 :> tcur) ELSE EmptyMap),
                !.prev_position = (1 :> tprev) @@ (2 :> dprev)
                                  @@ (IF extra THEN (3 :> tcur) ELSE EmptyMap),
                !.trail = [pos \in visited(tkind, tprev, tcur) \cup visited(dkind, dprev, dcur) |->
                              (IF pos \in visited(tkind, tprev, tcur) THEN {1} ELSE {})
                              \cup (IF pos \in visited(dkind, dprev, dcur) THEN {2} ELSE {})]]
        cells == {<<0, 0>>, <<1, 0>>, <<2, 0>>}
        kinds == {"none", "here", "path"}
    IN  {CrossWorld(tprev, tcur, dprev, dcur, tkind, dkind, lethal2, extra) :
            tprev \in cells, tcur \in cells, dprev \in cells, dcur \in cells,
            tkind \in kinds, dkind \in kinds, lethal2 \in BOOLEAN, extra \in BOOLEAN}

Levels == HazardLevels \cup ChaseLevels \cup KeyLevels \cup PortalLevels \cup EdgeLevels

(* --------------------------- the state machine ------------------------ *)

(* state: the world the caller holds; prev: the world passed to the last   *)
(* call (Optional); last: the last call's arguments; raised: the exception *)
(* the last call raised ("" if it returned).                               *)
Init ==
    /\ state \in Levels
    /\ prev = {}
    /\ last = [action |-> "", agent_arg |-> {}]
    /\ raised = ""

AgentArgs(s) == {{}} \cup {{a} : a \in s.agent}

Call(action, agent_arg) ==
    LET return(out) ==
            /\ IF Raised(out) THEN TRUE ELSE out.turn <= MaxTurn
            /\ raised' = IF Raised(out) THEN out.exc ELSE ""
            /\ state' = IF Raised(out) THEN state ELSE out
    IN  /\ prev' = {state}
        /\ last' = [action |-> action, agent_arg |-> agent_arg]
        /\ return(step(state, action, agent_arg, IterOrder))

StepMove == \E action \in MOVE_ACTIONS : \E agent_arg \in AgentArgs(state) : Call(action, agent_arg)

StepUseKey == \E agent_arg \in AgentArgs(state) : Call("USE_KEY", agent_arg)

StepPickUp == \E agent_arg \in AgentArgs(state) : Call("PICK_UP", agent_arg)

StepWait == \E agent_arg \in AgentArgs(state) : Call("WAIT", agent_arg)

Next == StepMove \/ StepUseKey \/ StepPickUp \/ StepWait

Spec == Init /\ [][Next]_vars

(* damage_system called on its own, any number of times within one turn.   *)
InitDamage ==
    /\ state \in DamageLevels
    /\ prev = {}
    /\ last = [action |-> "", agent_arg |-> {}]
    /\ raised = ""

DamageCall ==
    LET return(out) ==
            /\ raised' = IF Raised(out) THEN out.exc ELSE ""
            /\ state' = IF Raised(out) THEN state ELSE out
    IN  /\ prev' = {state}
        /\ last' = [action |-> "damage_system", agent_arg |-> {}]
        /\ return(damage_system(state, IterOrder))

NextDamage == DamageCall

SpecDamage == InitDamage /\ [][NextDamage]_vars

(* damage_system called on its own over several turns: between two calls   *)
(* the turn may end, which advances the turn counter (turn_system) and     *)
(* starts the next turn with no recorded hits (the reset at the top of     *)
(* step).                                                                  *)
TurnCall ==
    /\ state.turn < MaxTurn
    /\ prev' = {state}
    /\ last' = [action |-> "turn_system", agent_arg |-> {}]
    /\ raised' = ""
    /\ state' = [turn_system(state, Min(state.agent)) EXCEPT
                     !.damage_hits = {}, !.trail = EmptyMap]

NextExposure == DamageCall \/ TurnCall

SpecExposure == InitDamage /\ [][NextExposure]_vars

(* A world in the caller's hands before any call.                          *)
InitFrom(worlds) ==
    /\ state \in worlds
    /\ prev = {}
    /\ last = [action |-> "", agent_arg |-> {}]
    /\ raised = ""

(* One sub-step of a move of the first agent, up to the position snapshot: *)
(* push and movement towards the cell the move function names, the trail   *)
(* entry, portal_system, position_system.  prev is the world handed to     *)
(* portal_system.  All sub-steps of a turn carry the turn's action (a      *)
(* speed effect repeats it); TurnCall starts the next turn.                *)
SubstepCall(action) ==
    LET agent_id == Min(state.agent)
        entered(t) == add_trail_position(t, agent_id, t.position[agent_id])
        teleport(t) ==
            /\ prev' = {t}
            /\ state' = position_system(portal_system(t, IterOrder))
    IN  /\ last.action \in {"", "turn_system", action}
        /\ last' = [action |-> action, agent_arg |-> {}]
        /\ raised' = ""
        /\ teleport(entered(_substep(
               state, action, agent_id,
               Head(MOVE_FN_REGISTRY(state.move_fn, state, agent_id, action)))))

PortalCall == \E action \in MOVE_ACTIONS : SubstepCall(action)

SpecPortal == InitFrom(PortalWorlds) /\ [][PortalCall \/ TurnCall]_vars

(* push_system called on its own for the first agent and the cell the     *)
(* move function names for a directional action.                           *)
PushCall ==
    \E action \in MOVE_ACTIONS :
        /\ prev' = {state}
        /\ last' = [action |-> action, agent_arg |-> {}]
        /\ raised' = ""
        /\ state' = push_system(
               state, Min(state.agent),
               Head(MOVE_FN_REGISTRY(state.move_fn, state, Min(state.agent), action)))

SpecPush == InitFrom(PushWorlds) /\ [][PushCall]_vars

(* The status systems called on their own: the two phases as step runs    *)
(* them (the tick at the start of a turn, the clean-up at its end), and    *)
(* status_system, which runs both.                                         *)
StatusCall(name) ==
    /\ prev' = {state}
    /\ last' = [action |-> name, agent_arg |-> {}]
    /\ raised' = ""
    /\ state' = CASE name = "status_tick_system" -> status_tick_system(state)
                  [] name = "status_gc_system" -> status_gc_system(state)
                  [] name = "status_system" -> status_system(state)

NextStatus ==
    \/ (last.action # "status_tick_system" /\ StatusCall("status_tick_system"))
    \/ StatusCall("status_gc_system")
    \/ StatusCall("status_system")

SpecStatus == InitFrom(StatusWorlds) /\ [][NextStatus]_vars

(* The tile systems called on their own for agent 1, as _after_substep and *)
(* _after_step call them.  A call that changed the score is followed by at *)
(* most one call of the other system.                                      *)
TileCall(name) ==
    \E eid \in {1} :
        /\ state.score = 0 \/ (last.action # name /\ \A p \in prev : p.score = 0)
        /\ prev' = {state}
        /\ last' = [action |-> name, agent_arg |-> {eid}]
        /\ raised' = ""
        /\ state' = IF name = "tile_reward_system" THEN tile_reward_system(state, eid)
                     ELSE tile_cost_system(state, eid)

(* Worlds of one row: agent 1 on the first cell, or dead, or without a     *)
(* position, or missing from the agent store, or in a finished game; coins *)
(* 2 and 3 (rewardable) and tolls 4 and 5 (cost), each absent, on the      *)
(* agent's cell, collectible on the agent's cell, or on the next cell.     *)
SpecTile ==
    /\ InitFrom(
        LET placed(kind) == kind # "absent"
            cell(kind) == IF kind = "away" THEN <<1, 0>> ELSE <<0, 0>>
            TileWorld(a, k2, k3, k4, k5) ==
                LET kind_of == (2 :> k2) @@ (3 :> k3) @@ (4 :> k4) @@ (5 :> k5)
                    there == {e \in 2..5 : placed(kind_of[e])}
                IN  [State0 EXCEPT
                        !.width = 3, !.height = 1,
                        !.agent = IF a = "no_agent" THEN {} ELSE {1},
                        !.dead = IF a = "dead" THEN {1} ELSE {},
                        !.win = (a = "won"),
                        !.lose = (a = "lost"),
                        !.inventory = (1 :> {}),
                        !.position = [e \in there \cup (IF a = "no_position" THEN {} ELSE {1}) |->
                                         IF e = 1 THEN <<0, 0>> ELSE cell(kind_of[e])],
                        !.collectible = {e \in there : kind_of[e] = "collectible"},
                        !.rewardable = Restrict((2 :> 10) @@ (3 :> 3), there),
                        !.cost = Restrict((4 :> 2) @@ (5 :> 1), there)]
            agents == {"alive", "dead", "won", "lost", "no_agent", "no_position"}
            kinds == {"absent", "here", "collectible", "away"}
        IN  {TileWorld(a, k2, k3, k4, k5) :
                a \in agents, k2 \in kinds, k3 \in kinds, k4 \in kinds, k5 \in kinds})
    /\ [][TileCall("tile_reward_system") \/ TileCall("tile_cost_system")]_vars

(* run_garbage_collector called on its own, as _after_step calls it, on   *)
(* worlds with live and dead data side by side: agent 1 (with or without a *)
(* position) may hold key 2 in its inventory and list immunity 3 in its    *)
(* status; key 2 has no position and may list phasing 5 in its own status; *)
(* ghost 4 has health but no position and may list speed effect 6; the     *)
(* scalar fields vary, and a trail entry may be left.                      *)
SpecGc ==
    /\ InitFrom(
        LET GcWorld(placed, held, listed, nested, ghost, flags, trailed) ==
                [State0 EXCEPT
                    !.agent = {1},
                    !.collidable = {1},
                    !.health = (1 :> 3) @@ (4 :> 2),
                    !.position = IF placed THEN (1 :> <<0, 0>>) ELSE EmptyMap,
                    !.prev_position = (1 :> <<1, 0>>) @@ (4 :> <<2, 0>>),
                    !.inventory = (1 :> (IF held THEN {2} ELSE {})),
                    !.key = (2 :> "red"),
                    !.collectible = {2},
                    !.status = (1 :> (IF listed THEN {3} ELSE {}))
                               @@ (2 :> (IF nested THEN {5} ELSE {}))
                               @@ (IF ghost THEN (4 :> {6}) ELSE EmptyMap),
                    !.immunity = {3},
                    !.phasing = {5},
                    !.speed = (6 :> 2),
                    !.time_limit = (3 :> 2) @@ (6 :> 1),
                    !.usage_limit = (5 :> 1),
                    !.turn = flags[1], !.score = flags[2],
                    !.win = flags[3], !.lose = flags[4],
                    !.turn_limit = flags[5], !.seed = flags[6],
                    !.damage_hits = IF trailed THEN {<<1, 4, 0>>} ELSE {},
                    !.trail = IF trailed THEN (<<0, 0>> :> {1}) ELSE EmptyMap]
        IN  {GcWorld(placed, held, listed, nested, ghost, flags, trailed) :
                placed \in BOOLEAN, held \in BOOLEAN, listed \in BOOLEAN,
                nested \in BOOLEAN, ghost \in BOOLEAN,
                flags \in {0, 1} \X {0, -4} \X BOOLEAN \X BOOLEAN
                           \X {{}, {2}} \X {{}, {7}},
                trailed \in BOOLEAN})
    /\ [][/\ prev' = {state}
           /\ last' = [action |-> "run_garbage_collector", agent_arg |-> {}]
           /\ raised' = ""
           /\ state' = run_garbage_collector(state)]_vars

(* The terminal systems called on their own, for agent 1, as the end of   *)
(* step calls them.                                                        *)
WinCall ==
    \E agent_id \in {1} :
        /\ prev' = {state}
        /\ last' = [action |-> "win_system", agent_arg |-> {agent_id}]
        /\ raised' = ""
        /\ state' = win_system(state, agent_id)

LoseCall ==
    \E agent_id \in {1} :
        /\ prev' = {state}
        /\ last' = [action |-> "lose_system", agent_arg |-> {agent_id}]
        /\ raised' = ""
        /\ state' = lose_system(state, agent_id)

SpecTerminal == InitFrom(TerminalWorlds) /\ [][WinCall \/ LoseCall]_vars

(* damage_system called on worlds in which target and damager have moved.  *)
SpecCross == InitFrom(CrossWorlds) /\ [][DamageCall]_vars

(* step called on worlds that a turn has left behind: turn 1, with the     *)
(* hit of turn 0 still recorded and the trail entries not yet cleared.     *)
SpecReset ==
    /\ InitFrom({[w EXCEPT !.turn = 1, !.damage_hits = {<<1, 2, 0>>}] : w \in CrossWorlds})
    /\ [][Next]_vars

(* step called on one-row episodes: agent 1 (health 2) at (0,0); exit 6    *)
(* and hazard 2 (amount 1, lethal or not) each on (1,0) or (2,0); the      *)
(* agent's status may list effect 3 (immunity or phasing, time limit 1 or  *)
(* 2) and speed effect 5 (x2; unlimited or time limit 1 or 2); a turn      *)
(* limit of 1 may be set; a dead second agent 4 may lie on (0,0); the      *)
(* hazard may seek the agent (path mode).                                  *)
SpecEpisode ==
    /\ InitFrom(
        LET EpisodeWorld(ex, hz, lethal, prot, n3, spd, limit, bystander, chase) ==
                [State0 EXCEPT
                    !.width = 3, !.height = 1,
                    !.objective_fn = "exit",
                    !.agent = {1} \cup (IF bystander THEN {4} ELSE {}),
                    !.dead = IF bystander THEN {4} ELSE {},
                    !.collidable = {1, 2},
                    !.health = (1 :> 2),
                    !.damage = (2 :> 1),
                    !.lethal_damage = IF lethal THEN {2} ELSE {},
                    !.pathfinding = IF chase THEN (2 :> [target |-> {1}, type |-> "PATH"])
                                    ELSE EmptyMap,
                    !.exit = {6},
                    !.position = (1 :> <<0, 0>>) @@ (2 :> hz) @@ (6 :> ex)
                                 @@ (IF bystander THEN (4 :> <<0, 0>>) ELSE EmptyMap),
                    !.immunity = IF prot = "immunity" THEN {3} ELSE {},
                    !.phasing = IF prot = "phasing" THEN {3} ELSE {},
                    !.speed = IF spd = "none" THEN EmptyMap ELSE (5 :> 2),
                    !.time_limit = (IF prot = "none" THEN EmptyMap ELSE (3 :> n3))
                                   @@ (CASE spd = "t1" -> (5 :> 1)
                                         [] spd = "t2" -> (5 :> 2)
                                         [] OTHER -> EmptyMap),
                    !.status = (1 :> ((IF prot = "none" THEN {} ELSE {3})
                                      \cup (IF spd = "none" THEN {} ELSE {5}))),
                    !.turn_limit = limit]
            cells == {<<1, 0>>, <<2, 0>>}
        IN  {EpisodeWorld(ex, hz, lethal, prot, n3, spd, limit, bystander, chase) :
                ex \in cells, hz \in cells, lethal \in BOOLEAN,
                prot \in {"none", "immunity", "phasing"}, n3 \in {1, 2},
                spd \in {"none", "free", "t1", "t2"}, limit \in {{}, {1}},
                bystander \in BOOLEAN, chase \in BOOLEAN})
    /\ [][Next]_vars

(* pathfinding_system called on its own, as step calls it at the start of *)
(* a turn; a call that raises leaves the caller's world as it was.         *)
PathCall ==
    LET return(out) ==
            /\ raised' = IF Raised(out) THEN out.exc ELSE ""
            /\ state' = IF Raised(out) THEN state ELSE out
    IN  /\ prev' = {state}
        /\ last' = [action |-> "pathfinding_system", agent_arg |-> {}]
        /\ return(pathfinding_system(state, IterOrder))

SpecPath == InitFrom(PathWorlds) /\ [][PathCall]_vars

(* A variant of _returns without the early return of a blocked move.      *)
_returns_when_exhausted(before, out, positions, reps) ==
    Raised(out) \/ (positions = <<>> /\ reps <= 0)

(* Whether _step_move returns after a sub-step that turned world before    *)
(* into out, with positions and reps still to process.                     *)
_returns(before, out, positions, reps) ==
    Raised(out) \/ out = before \/ (positions = <<>> /\ reps <= 0)

(* _step_move taken one movement sub-step at a time.  In this machine last *)
(* also holds the position in the loops of _step_move: call (the part run  *)
(* last), effect_id (the speed effect the call selected), reps (the        *)
(* repetitions of range(move_count) not yet started), queue (the candidate *)
(* positions of the current repetition not yet processed), current_pos,    *)
(* running (the function has not returned) and start (the world the call   *)
(* was made on).  It starts before any call.                               *)
(* The entry of _step_move for the first agent, on the world step hands    *)
(* it at the start of a turn (trail and damage hits reset): the speed      *)
(* effect is selected and consumed and the repetition count is set.        *)
BeginMove ==
    \E action \in MOVE_ACTIONS :
        LET agent_id == Min(state.agent)
            s == [state EXCEPT !.damage_hits = {}, !.trail = EmptyMap]
            used == IF Has(s.status, agent_id)
                    THEN use_status_effect_if_present(
                             s.status[agent_id], DOMAIN s.speed,
                             s.time_limit, s.usage_limit)
                    ELSE [usage_limit |-> s.usage_limit, effect_id |-> {}]
            move_count == IF used.effect_id # {} THEN s.speed[The(used.effect_id)] ELSE 1
        IN  /\ ~last.running
            /\ Has(s.position, agent_id)
            /\ prev' = {s}
            /\ raised' = ""
            /\ state' = [s EXCEPT !.usage_limit = used.usage_limit]
            /\ last' = [action |-> action, agent_arg |-> {agent_id},
                        call |-> "_step_move", effect_id |-> used.effect_id,
                        reps |-> move_count, queue |-> <<>>,
                        current_pos |-> s.position[agent_id], running |-> move_count > 0,
                        start |-> {s}]

(* One pass of the inner loop body: the next candidate position (of a new  *)
(* repetition when the queue is empty) goes through _substep and           *)
(* _after_substep; the function returns when the world comes out equal or  *)
(* when both loops are exhausted.                                          *)
SubstepStep ==
    LET agent_id == The(last.agent_arg)
        found == MOVE_FN_REGISTRY(state.move_fn, state, agent_id, last.action)
        fresh == last.queue = <<>>
        positions == IF ~fresh THEN last.queue
                     ELSE IF found = <<>> THEN <<last.current_pos>> ELSE found
        reps == IF fresh THEN last.reps - 1 ELSE last.reps
        after(out) ==
            /\ raised' = IF Raised(out) THEN out.exc ELSE ""
            /\ state' = IF Raised(out) THEN state ELSE out
            /\ last' = [last EXCEPT
                            !.call = "_substep", !.reps = reps, !.queue = Tail(positions),
                            !.running = ~_returns(state, out, Tail(positions), reps)]
    IN  /\ last.running
        /\ prev' = {state}
        /\ after(_after_substep(_substep(state, last.action, agent_id, Head(positions)),
                                last.action, agent_id, IterOrder))

SpecMove ==
    /\ state \in MoveWorlds /\ prev = {} /\ raised = ""
    /\ last = [action |-> "", agent_arg |-> {}, call |-> "", effect_id |-> {},
               reps |-> 0, queue |-> <<>>, current_pos |-> <<0, 0>>, running |-> FALSE,
               start |-> {}]
    /\ [][BeginMove \/ SubstepStep]_vars

(* ------------------------------ properties ---------------------------- *)

(* The orders in which a Python set or persistent map of entity ids may be *)
(* visited: the one the interpreter uses for small ids, and its reverse.   *)
VisitOrders == {IterOrder, [i \in 1..MaxId |-> MaxId + 1 - i]}

(* C1: step is deterministic and its result does not depend on the order   *)
(* in which an unordered collection of entities is visited: for every      *)
(* reachable world, action and acting entity, step gives the same result   *)
(* (state or exception) under every visiting order.                        *)
C1_OrderIndependent ==
    \A action \in Action : \A e \in state.agent : \A ord \in VisitOrders :
        step(state, action, {e}, ord) = step(state, action, {e}, IterOrder)

(* The acting entity of the last call (none before the first call, and     *)
(* none when the call found no agent).                                     *)
LastActing ==
    UNION {acting_entity(p, last.agent_arg, IterOrder) : p \in prev}

(* C2: when win or lose is already true, or the acting entity has no        *)
(* position, and the acting entity is not dead, step returns its input     *)
(* with every field unchanged, whatever the action.                        *)
C2_TerminalOrInvalidIsNoOp ==
    \A p \in prev : \A e \in LastActing :
        (e \notin p.dead /\ (p.win \/ p.lose \/ ~Has(p.position, e)))
            => (raised = "" /\ state = p)

(* A call with a move action on a world that play has already won.         *)
C2_Witness ==
    \E p \in prev : \E e \in LastActing :
        /\ e \notin p.dead /\ p.win /\ p.turn > 0
        /\ last.action \in MOVE_ACTIONS
        /\ state = p

(* C3: when the acting entity is in the dead store, step returns its input  *)
(* with lose set and every other field unchanged; no system is run.        *)
C3_DeadActorOnlySetsLose ==
    \A p \in prev : \A e \in LastActing :
        e \in p.dead => (raised = "" /\ state = [p EXCEPT !.lose = TRUE])

(* A call for a dead acting entity on a world whose lose flag was not set.  *)
C3_Witness ==
    \E p \in prev : \E e \in LastActing :
        e \in p.dead /\ ~p.lose /\ state.lose /\ state.turn = p.turn

(* C4: a call without an acting entity id behaves as the call for the first *)
(* (lowest-id) agent; when the agent store is empty it raises and returns  *)
(* no state.                                                               *)
C4_DefaultsToFirstAgent ==
    \A p \in prev :
        last.agent_arg = {} =>
            IF p.agent = {} THEN raised = "ValueError" /\ state = p
            ELSE LET same(out) ==
                         IF Raised(out) THEN raised = out.exc /\ state = p
                         ELSE raised = "" /\ state = out
                 IN  same(step(p, last.action, {Min(p.agent)}, IterOrder))

(* A call without an id on a world with no agent: the call raised.         *)
C4_Witness ==
    \E p \in prev :
        last.agent_arg = {} /\ p.agent = {} /\ raised = "ValueError" /\ state = p

(* C5: win and lose are monotonic over any sequence of step calls: a flag   *)
(* that is true in the world passed to a call is true in the world the     *)
(* caller holds afterwards.                                                *)
C5_FlagsMonotonic ==
    \A p \in prev : (p.win => state.win) /\ (p.lose => state.lose)

(* A call that changed a world that was already won: the acting entity was *)
(* dead, lose was set, and win stayed.                                     *)
C5_Witness ==
    \E p \in prev : p.win /\ ~p.lose /\ state.win /\ state.lose

(* The damage amount of a damager in world s (zero for a damager that has  *)
(* only the lethal marker), summed over a set of damagers.                 *)
AmountOf(s, d) == IF Has(s.damage, d) THEN s.damage[d] ELSE 0

RECURSIVE TotalAmount(_, _)
TotalAmount(s, ds) ==
    IF ds = {} THEN 0
    ELSE LET d == CHOOSE x \in ds : TRUE
         IN  AmountOf(s, d) + TotalAmount(s, ds \ {d})

(* The damagers recorded in hits as having damaged target t in turn n.     *)
HittersOf(hits, t, n) == {h[2] : h \in {x \in hits : x[1] = t /\ x[3] = n}}

(* C6: within one step a (target, damager) pair reduces the target's health *)
(* by the damager's amount at most once, however many sub-steps run        *)
(* damage_system: the health lost over the step is at most the sum of the  *)
(* amounts of the distinct damagers that hit the target in that turn.      *)
C6_DamageAtMostOncePerPair ==
    \A p \in prev : \A t \in DOMAIN p.health \cap DOMAIN state.health :
        state.health[t] >=
            p.health[t] - TotalAmount(p, HittersOf(state.damage_hits, t, p.turn))

(* A move under a speed effect whose two sub-steps both ran damage_system   *)
(* with the agent standing on the same damager, which hit it once.         *)
C6_Witness ==
    \E p \in prev : \E t \in p.agent \cap DOMAIN state.health : \E d \in DOMAIN p.damage :
        /\ last.action \in MOVE_ACTIONS
        /\ state.turn = p.turn + 1
        /\ Has(p.status, t) /\ p.status[t] \cap DOMAIN p.speed # {}
        /\ Has(p.position, d) /\ Has(p.position, t) /\ Has(state.position, t)
        /\ p.position[t] = p.position[d] /\ state.position[t] = p.position[t]
        /\ p.damage[d] > 0
        /\ HittersOf(state.damage_hits, t, p.turn) = {d}
        /\ state.health[t] = p.health[t] - p.damage[d]

(* The entities reachable in world s: those with a position, and those     *)
(* listed in the inventory or the status of a reachable entity.            *)
RECURSIVE ReachableFrom(_, _)
ReachableFrom(s, R) ==
    LET more == R \cup UNION {s.inventory[e] : e \in R \cap DOMAIN s.inventory}
                  \cup UNION {s.status[e] : e \in R \cap DOMAIN s.status}
    IN  IF more = R THEN R ELSE ReachableFrom(s, more)

Reachable(s) == ReachableFrom(s, DOMAIN s.position)

(* The ids that are a key of some component store of world s.              *)
ComponentKeys(s) ==
    UNION {Keys(s, f) : f \in (MarkerStores \cup MapStores) \ {"prev_position"}}

(* C7: in the state returned by a step that ran the pipeline, every entity  *)
(* id that is a key of a component store is reachable: it has a position   *)
(* or is listed in the inventory or status of a reachable entity.          *)
C7_GCReachability ==
    \A p \in prev :
        (raised = "" /\ state.turn = p.turn + 1)
            => ComponentKeys(state) \subseteq Reachable(state)

(* The damagers other than t standing on t's cell in world s.              *)
OverlappingDamagers(s, t) ==
    {d \in _candidate_damagers(s) \ {t} :
        Has(s.position, d) /\ s.position[d] = s.position[t]}

(* Target t of world s is open to damage: alive, positioned, and without   *)
(* any immunity or phasing effect in its status.                           *)
Exposed(s, t) ==
    /\ Has(s.health, t) /\ Has(s.position, t) /\ t \notin s.dead
    /\ (Has(s.status, t) => s.status[t] \cap (s.immunity \cup s.phasing) = {})

(* The (target, damager, turn) hits the last call added.                   *)
NewHits == {h \in state.damage_hits : \A p \in prev : h \notin p.damage_hits}

(* C8: for a live target with health h that overlaps damagers with          *)
(* non-negative amounts, with no immunity or phasing effect and no prior   *)
(* hit this turn, a damage_system call that returns sets the target's      *)
(* health to max(0, h - sum of the amounts); health is never negative.     *)
C8_DamageArithmetic ==
    /\ \A t \in DOMAIN state.health : state.health[t] >= 0
    /\ \A p \in prev : \A t \in DOMAIN p.health :
           (/\ raised = ""
            /\ Exposed(p, t)
            /\ \A d \in OverlappingDamagers(p, t) :
                   AmountOf(p, d) >= 0 /\ <<t, d, p.turn>> \notin p.damage_hits)
               => state.health[t] =
                      Max2(0, p.health[t] - TotalAmount(p, OverlappingDamagers(p, t)))

(* A call in which three damagers with amounts adding up to more than the  *)
(* agent's health hit it: its health is floored at zero.                   *)
C8_Witness ==
    \E p \in prev : \E t \in p.agent :
        /\ raised = "" /\ Exposed(p, t)
        /\ Cardinality(OverlappingDamagers(p, t)) = 3
        /\ \A d \in OverlappingDamagers(p, t) :
               AmountOf(p, d) > 0 /\ <<t, d, p.turn>> \in NewHits
        /\ TotalAmount(p, OverlappingDamagers(p, t)) > p.health[t]
        /\ state.health[t] = 0

(* C9: when a damager that applies damage to a target in a damage_system    *)
(* call carries the lethal marker, the target is in the dead store after   *)
(* the call, whatever health it has left and whatever else hit it.         *)
C9_LethalKills ==
    \A h \in NewHits :
        (raised = "" /\ \E p \in prev : h[2] \in p.lethal_damage)
            => h[1] \in state.dead

(* A call in which a lethal damager and two non-lethal ones hit the agent, *)
(* which is dead with health left.                                         *)
C9_Witness ==
    \E p \in prev : \E t \in p.agent :
        /\ raised = ""
        /\ \E h \in NewHits : h[1] = t /\ h[2] \in p.lethal_damage
        /\ Cardinality({h \in NewHits : h[1] = t /\ h[2] \notin p.lethal_damage}) = 2
        /\ state.health[t] > 0
        /\ t \notin p.dead /\ t \in state.dead

(* C10: damage from a damager with a negative amount raises: a call that    *)
(* returns has applied no negative amount and increased no health, and a   *)
(* call in which a negative damager overlaps an exposed target that it has *)
(* not hit this turn raises ValueError and returns no state.               *)
C10_NegativeDamageRaises ==
    \A p \in prev :
        /\ raised = "" =>
               /\ \A h \in NewHits : AmountOf(p, h[2]) >= 0
               /\ \A t \in DOMAIN p.health \cap DOMAIN state.health :
                      state.health[t] <= p.health[t]
        /\ (\E t \in DOMAIN p.health : \E d \in OverlappingDamagers(p, t) :
                /\ Exposed(p, t)
                /\ AmountOf(p, d) < 0
                /\ <<t, d, p.turn>> \notin p.damage_hits)
               => (raised = "ValueError" /\ state = p)

(* A call on a world where a damager with amount -1 stands on the agent's  *)
(* cell: the call raised.                                                  *)
C10_Witness ==
    \E p \in prev : \E t \in p.agent : \E d \in OverlappingDamagers(p, t) :
        Exposed(p, t) /\ AmountOf(p, d) < 0 /\ raised = "ValueError"

(* C11: a usage-limited immunity blocks once.  For an agent whose only     *)
(* status effect is an immunity with a usage limit, standing on exactly    *)
(* one damager that has not hit it this turn: with usage amount 1 a        *)
(* damage_system call leaves its health as it is and the amount becomes 0; *)
(* with usage amount 0 (a later exposure) the damager's amount is taken    *)
(* off its health.                                                         *)
C11_ImmunityBlocksOnce ==
    \A p \in prev : \A t \in p.agent : \A e \in p.immunity :
        (/\ last.action = "damage_system"
         /\ Has(p.health, t) /\ Has(p.position, t) /\ t \notin p.dead
         /\ Has(p.status, t) /\ p.status[t] = {e}
         /\ Has(p.usage_limit, e) /\ ~Has(p.time_limit, e)
         /\ \E d \in Ids :
                /\ OverlappingDamagers(p, t) = {d}
                /\ AmountOf(p, d) >= 0
                /\ <<t, d, p.turn>> \notin p.damage_hits)
            => /\ raised = ""
               /\ p.usage_limit[e] = 1 =>
                      /\ state.health[t] = p.health[t]
                      /\ t \notin state.dead
                      /\ state.usage_limit[e] = 0
               /\ p.usage_limit[e] = 0 =>
                      state.health[t] =
                          Max2(0, p.health[t] - TotalAmount(p, OverlappingDamagers(p, t)))

(* A damage_system call in a later turn on an agent whose immunity was     *)
(* used up by an earlier exposure: the damager took its amount off.        *)
C11_Witness ==
    \E p \in prev : \E t \in p.agent : \E e \in p.immunity : \E d \in DOMAIN p.damage :
        /\ last.action = "damage_system" /\ raised = ""
        /\ p.turn > 0
        /\ Has(p.status, t) /\ p.status[t] = {e}
        /\ Has(p.usage_limit, e) /\ p.usage_limit[e] = 0
        /\ OverlappingDamagers(p, t) = {d}
        /\ p.damage[d] > 0
        /\ state.health[t] = p.health[t] - p.damage[d]

(* Entity e of world s is entering portal x: it stands on the portal's     *)
(* cell and its previous position differs from its current one.            *)
Entering(s, e, x) ==
    /\ Has(s.position, e) /\ Has(s.position, x)
    /\ s.position[e] = s.position[x]
    /\ (Has(s.prev_position, e) => s.prev_position[e] # s.position[e])

(* Portal x of world s has a positioned pair whose cell is blocked (by a   *)
(* blocking, pushable or collidable entity).                               *)
PairBlocked(s, x) ==
    /\ Has(s.position, x) /\ Has(s.position, s.portal[x])
    /\ is_blocked_at(s, s.position[s.portal[x]], TRUE, TRUE)

(* C12: in a portal_system call, a collidable entity entering a portal of  *)
(* a reciprocal pair whose pair cell is not blocked ends on the pair's     *)
(* cell, and a collidable entity entering no portal keeps its position.    *)
C12_EnteringIsTeleported ==
    \A p \in prev : \A e \in p.collidable \cap DOMAIN p.position :
        last.action \in MOVE_ACTIONS =>
            /\ \A x \in DOMAIN p.portal :
                   (/\ p.portal[p.portal[x]] = x
                    /\ Has(p.position, p.portal[x]) /\ ~PairBlocked(p, x)
                    /\ Entering(p, e, x))
                       => state.position[e] = p.position[p.portal[x]]
            /\ (\A x \in DOMAIN p.portal : ~Entering(p, e, x))
                   => state.position[e] = p.position[e]

(* C13: when the cell of a portal's pair is occupied by a blocking,        *)
(* pushable or collidable entity in the world handed to portal_system, no  *)
(* entity entering the portal is moved by the call.                        *)
C13_BlockedPairSuppresses ==
    \A p \in prev : \A x \in DOMAIN p.portal : \A e \in p.collidable :
        (/\ last.action \in MOVE_ACTIONS
         /\ PairBlocked(p, x)
         /\ Entering(p, e, x))
            => state.position[e] = p.position[e]

(* C14: at most one hop.  An entity that a portal_system call moved was    *)
(* entering some portal and ends on the cell of that portal's pair.        *)
C14_AtMostOneHop ==
    \A p \in prev : \A e \in DOMAIN p.position :
        (last.action \in MOVE_ACTIONS /\ state.position[e] # p.position[e])
            => \E x \in DOMAIN p.portal :
                   /\ Entering(p, e, x)
                   /\ Has(p.position, p.portal[x])
                   /\ state.position[e] = p.position[p.portal[x]]

(* The cell the last call's action named for the first agent of world s.   *)
NextPos(s) == Head(MOVE_FN_REGISTRY(s.move_fn, s, Min(s.agent), last.action))

(* C15: a failed push leaves everything in place.  When next_pos holds a   *)
(* pushable and the cell beyond it is out of bounds (without wrap-around)  *)
(* or holds a blocking, pushable or collidable entity, push_system returns *)
(* the state it was given.                                                 *)
C15_FailedPushChangesNothing ==
    \A p \in prev :
        LET a == p.position[Min(p.agent)]
            n == NextPos(p)
            beyond == <<n[1] + (n[1] - a[1]), n[2] + (n[2] - a[2])>>
            d == IF p.move_fn = "wrap"
                 THEN <<beyond[1] % p.width, beyond[2] % p.height>>
                 ELSE beyond
            occupied == \E e \in DOMAIN p.position :
                            /\ p.position[e] = d
                            /\ e \in p.blocking \cup p.pushable \cup p.collidable
        IN  (/\ \E b \in p.pushable : Has(p.position, b) /\ p.position[b] = n
             /\ \/ (p.move_fn # "wrap" /\ ~is_in_bounds(p, d))
                \/ occupied)
                => state = p

(* The agent pushed a box towards a wall on the cell beyond it: nothing    *)
(* moved.                                                                  *)
C15_Witness ==
    \E p \in prev : \E b \in p.pushable : \E w \in p.blocking :
        LET a == p.position[Min(p.agent)]
            n == NextPos(p)
        IN  /\ p.position[b] = n
            /\ p.position[w] = <<n[1] + (n[1] - a[1]), n[2] + (n[2] - a[2])>>
            /\ state = p

(* C16: a successful push.  When next_pos holds a pushable and the cell d  *)
(* beyond it is in bounds and holds no blocking, pushable or collidable    *)
(* entity, every pushable at next_pos is on d afterwards, the actor is on  *)
(* next_pos, and nothing else changed; when next_pos holds no pushable the *)
(* state is returned as given.                                             *)
C16_SuccessfulPush ==
    \A p \in prev :
        LET actor == Min(p.agent)
            a == p.position[actor]
            n == NextPos(p)
            d == <<n[1] + (n[1] - a[1]), n[2] + (n[2] - a[2])>>
            pushed == {b \in p.pushable : Has(p.position, b) /\ p.position[b] = n}
            occupied == \E e \in DOMAIN p.position :
                            /\ p.position[e] = d
                            /\ e \in p.blocking \cup p.pushable \cup p.collidable
        IN  /\ (pushed # {} /\ is_in_bounds(p, d) /\ ~occupied)
                   => state = [p EXCEPT !.position =
                                 [e \in DOMAIN p.position |->
                                     IF e \in pushed THEN d
                                     ELSE IF e = actor THEN n
                                     ELSE p.position[e]]]
            /\ pushed = {} => state = p

(* Two boxes stacked on next_pos were pushed together onto a cell that     *)
(* holds a coin or an exit.                                                *)
C16_Witness ==
    \E p \in prev :
        LET actor == Min(p.agent)
            a == p.position[actor]
            n == NextPos(p)
            d == <<n[1] + (n[1] - a[1]), n[2] + (n[2] - a[2])>>
            pushed == {b \in p.pushable : Has(p.position, b) /\ p.position[b] = n}
        IN  /\ Cardinality(pushed) = 2
            /\ \E e \in p.collectible \cup p.exit : p.position[e] = d
            /\ \A b \in pushed : state.position[b] = d
            /\ state.position[actor] = n
            /\ state # p

(* C17: key consumption.  After a use-key step of an agent next to a       *)
(* locked door: if its inventory held a key with the door's key id, the    *)
(* door is no longer locked or blocking, exactly one such key has left the *)
(* inventory and that key is a key of no store; otherwise the door is      *)
(* still locked and blocking and the inventory is as it was.               *)
C17_KeyConsumption ==
    \A p \in prev : \A a \in LastActing : \A d \in DOMAIN p.locked :
        LET matching == {k \in p.inventory[a] \cap DOMAIN p.key : p.key[k] = p.locked[d]}
            apart == Max2(p.position[a][1] - p.position[d][1],
                          p.position[d][1] - p.position[a][1])
                     + Max2(p.position[a][2] - p.position[d][2],
                            p.position[d][2] - p.position[a][2])
        IN  (/\ last.action = "USE_KEY" /\ raised = "" /\ state.turn = p.turn + 1
             /\ Has(p.position, a) /\ Has(p.inventory, a) /\ Has(p.position, d)
             /\ apart = 1)
                => IF matching # {}
                   THEN /\ ~Has(state.locked, d) /\ d \notin state.blocking
                        /\ \E k \in matching :
                               /\ state.inventory[a] = p.inventory[a] \ {k}
                               /\ k \notin AllKeys(state)
                   ELSE /\ Has(state.locked, d)
                        /\ d \in p.blocking => d \in state.blocking
                        /\ state.inventory[a] = p.inventory[a]

(* A use-key step of an agent holding two keys that match the door next to *)
(* it: the door is open, one key is gone and the other is still held.      *)
C17_Witness ==
    \E p \in prev : \E a \in LastActing : \E d \in DOMAIN p.locked :
        LET matching == {k \in p.inventory[a] \cap DOMAIN p.key : p.key[k] = p.locked[d]}
        IN  /\ last.action = "USE_KEY" /\ raised = ""
            /\ Cardinality(matching) = 2
            /\ ~Has(state.locked, d) /\ d \notin state.blocking
            /\ Cardinality(state.inventory[a] \cap matching) = 1
            /\ Cardinality(matching \cap AllKeys(state)) = 1

(* C18: expiry timing.  A status_system call takes one off the time limit  *)
(* of every effect listed in a status (a live effect of one holder), and   *)
(* the effect is still listed afterwards exactly when at least one turn is *)
(* left; no call lists an effect again.  So an effect with time limit n is *)
(* listed after k < n calls and gone after the n-th, each effect by its    *)
(* own count.                                                              *)
C18_ExpiryTiming ==
    \A p \in prev :
        last.action = "status_system" =>
            \A h \in DOMAIN p.status :
                /\ state.status[h] \subseteq p.status[h]
                /\ \A e \in p.status[h] :
                       (/\ Has(p.time_limit, e) /\ p.time_limit[e] >= 1
                        /\ e \in p.immunity \cup p.phasing \cup DOMAIN p.speed
                        /\ ~(Has(p.usage_limit, e) /\ p.usage_limit[e] <= 0)
                        /\ \A g \in DOMAIN p.status : e \in p.status[g] => g = h)
                           => /\ state.time_limit[e] = p.time_limit[e] - 1
                              /\ e \in state.status[h] <=> p.time_limit[e] >= 2

(* A status_system call in which one effect of the agent ran out (after    *)
(* earlier calls: the agent's time limits start at 2 or more) while the    *)
(* other holder's effect, with turns left, stayed.                         *)
C18_Witness ==
    \E p \in prev : \E h \in p.agent : \E g \in DOMAIN p.status \ {h} :
        \E e \in p.status[h] : \E f \in p.status[g] :
            /\ last.action = "status_system"
            /\ Has(p.time_limit, e) /\ p.time_limit[e] = 1
            /\ e \notin state.status[h]
            /\ Has(p.time_limit, f) /\ p.time_limit[f] >= 2
            /\ f \in state.status[g]

(* C19: status_gc_system removes from every status exactly the ids that    *)
(* are in none of the immunity, phasing and speed stores or whose time or  *)
(* usage limit amount is at most zero, and changes nothing else.           *)
C19_GcRemovesOrphanedAndExpired ==
    \A p \in prev :
        last.action = "status_gc_system" =>
            state = [p EXCEPT !.status =
                      [h \in DOMAIN p.status |->
                          {e \in p.status[h] :
                              /\ e \in p.immunity \cup p.phasing \cup DOMAIN p.speed
                              /\ ~(Has(p.time_limit, e) /\ p.time_limit[e] <= 0)
                              /\ ~(Has(p.usage_limit, e) /\ p.usage_limit[e] <= 0)}]]

(* A status_gc_system call that removed an orphaned id, an effect whose    *)
(* usage limit is used up and one whose time is up, and kept an unlimited  *)
(* effect.                                                                 *)
C19_Witness ==
    \E p \in prev :
        /\ last.action = "status_gc_system"
        /\ \E h \in DOMAIN p.status : \E e \in p.status[h] \ state.status[h] :
               e \notin p.immunity \cup p.phasing \cup DOMAIN p.speed
        /\ \E h \in DOMAIN p.status : \E e \in p.status[h] \ state.status[h] :
               Has(p.time_limit, e) /\ p.time_limit[e] <= 0
        /\ \E h \in DOMAIN p.status : \E e \in state.status[h] :
               ~Has(p.time_limit, e) /\ ~Has(p.usage_limit, e)

(* C20: win_system returns the state with win set when the agent store is *)
(* non-empty, the acting agent has a position, the state is not won, not   *)
(* lost, the agent is not dead, and the objective holds for the agent; in  *)
(* every other case it returns the state unchanged.                        *)
C20_WinIff ==
    \A p \in prev : \A agent_id \in last.agent_arg :
        last.action = "win_system" =>
            state = IF /\ p.agent # {}
                       /\ agent_id \in DOMAIN p.position
                       /\ ~p.win /\ ~p.lose /\ agent_id \notin p.dead
                       /\ OBJECTIVE_FN_REGISTRY(p.objective_fn, p, agent_id)
                    THEN [p EXCEPT !.win = TRUE]
                    ELSE p

(* A win_system call for a dead agent that stands on the exit with every   *)
(* required item collected, in a state neither won nor lost.               *)
C20_Witness ==
    \E p \in prev : \E agent_id \in last.agent_arg :
        /\ last.action = "win_system"
        /\ agent_id \in p.dead /\ ~p.win /\ ~p.lose
        /\ is_valid_state(p, agent_id)
        /\ OBJECTIVE_FN_REGISTRY(p.objective_fn, p, agent_id)
        /\ ~state.win

(* C21: a step call that runs the pipeline (the acting entity is alive and *)
(* positioned, the world is not terminal, and no system raises) returns a  *)
(* world whose turn is one more than before, whatever the action and the   *)
(* number of sub-steps; if a turn limit is set, reached, and win is false, *)
(* lose is true; and a won world is lost only if the acting entity died.   *)
C21_TurnAdvancesByOne ==
    \A p \in prev : \A e \in LastActing :
        (/\ raised = "" /\ e \notin p.dead
         /\ is_valid_state(p, e) /\ ~is_terminal_state(p, e))
            => /\ state.turn = p.turn + 1
               /\ \A limit \in state.turn_limit :
                      (state.turn >= limit /\ ~state.win) => state.lose
               /\ (state.win /\ state.lose) => e \in state.dead

(* A winning step that reaches the turn limit: lose stays false.           *)
C21_Witness ==
    \E p \in prev : \E e \in LastActing :
        /\ raised = "" /\ ~is_terminal_state(p, e) /\ is_valid_state(p, e)
        /\ \E limit \in state.turn_limit : state.turn >= limit
        /\ state.turn = p.turn + 1
        /\ state.win /\ ~state.lose

(* C22: absent data is a no-op.  A pathfinding_system call on a world in   *)
(* which a seeker's target has no position does not raise and leaves the   *)
(* seeker where it is; and a portal whose pair has no position leaves      *)
(* every position as it is.                                                *)
C22_AbsentDataIsNoOp ==
    /\ \A p \in prev :
           (/\ last.action = "pathfinding_system"
            /\ \E e \in DOMAIN p.pathfinding : \E t \in p.pathfinding[e].target :
                   Has(p.position, e) /\ ~Has(p.position, t))
               => raised = "" /\ state.position = p.position
    /\ \A x \in DOMAIN state.portal :
           ~Has(state.position, state.portal[x])
               => portal_system_entity(
                      state, get_augmented_trail(state, state.collidable), x) = state

(* C26: when the target of a seeker holds an active phasing effect, a      *)
(* pathfinding_system call leaves the seeker where it is and consumes the  *)
(* effect: a usage-limited effect has one usage less in the returned       *)
(* world.                                                                  *)
C26_PhasingEvadesAndIsConsumed ==
    \A p \in prev :
        last.action = "pathfinding_system" =>
            \A e \in DOMAIN p.pathfinding : \A t \in p.pathfinding[e].target :
                \A f \in (IF Has(p.status, t)
                          THEN get_status_effect(p.status[t], p.phasing,
                                                 p.time_limit, p.usage_limit)
                          ELSE {}) :
                    Has(p.position, e) =>
                        /\ raised = ""
                        /\ state.position[e] = p.position[e]
                        /\ Has(p.usage_limit, f) =>
                               state.usage_limit[f] = p.usage_limit[f] - 1

(* The cells of the grid a path may use: those holding no blocking and no  *)
(* pushable entity.                                                        *)
Passable(s) ==
    {c \in (0..(s.width - 1)) \X (0..(s.height - 1)) :
        \A e \in DOMAIN s.position :
            s.position[e] = c => e \notin s.blocking \cup s.pushable}

(* Breadth-first search: the length of a shortest four-connected path     *)
(* from cell from to cell goal through passable cells, or -1 when there is *)
(* none.                                                                   *)
PathLength(s, from, goal) ==
    LET RECURSIVE Distance(_, _, _)
        Distance(front, seen, d) ==
            IF goal \in front THEN d
            ELSE LET next == {c \in Passable(s) \ seen :
                                 \E b \in front : heuristic(b, c) = 1}
                 IN  IF next = {} THEN -1
                     ELSE Distance(next, seen \cup next, d + 1)
    IN  Distance({from}, {from}, 0)

(* The seekers of type type that a pathfinding_system call on world p      *)
(* moves toward a positioned target t that no phasing effect protects.     *)
Chasing(p, type) ==
    {<<e, t>> \in (DOMAIN p.pathfinding) \X (DOMAIN p.position) :
        /\ p.pathfinding[e].type = type /\ p.pathfinding[e].target = {t}
        /\ Has(p.position, e)
        /\ Has(p.status, t) =>
               get_status_effect(p.status[t], p.phasing,
                                 p.time_limit, p.usage_limit) = {}}

(* C27: in path mode, a seeker on another cell than its target moves to a  *)
(* neighbouring cell from which the shortest passable path to the target   *)
(* is one shorter than from its own cell; when there is no such path it    *)
(* stays.  Cells holding only collidable entities are passable.            *)
C27_PathModeShortestStep ==
    \A p \in prev :
        last.action = "pathfinding_system" =>
            \A c \in Chasing(p, "PATH") :
                LET from == p.position[c[1]]
                    goal == p.position[c[2]]
                    onestep(d, to) ==
                        IF d > 0
                        THEN heuristic(from, to) = 1 /\ PathLength(p, to, goal) = d - 1
                        ELSE to = from
                IN  from # goal =>
                        /\ raised = ""
                        /\ onestep(PathLength(p, from, goal), state.position[c[1]])

(* A path-mode seeker that took the first step of a detour around a wall,  *)
(* onto the cell of a collidable crate.                                    *)
C27_Witness ==
    \E p \in prev : \E c \in Chasing(p, "PATH") :
        /\ last.action = "pathfinding_system"
        /\ state.position[c[1]] # p.position[c[1]]
        /\ PathLength(p, p.position[c[1]], p.position[c[2]])
               > heuristic(p.position[c[1]], p.position[c[2]])
        /\ \E o \in p.collidable \ {c[1], c[2]} :
               Has(p.position, o) /\ p.position[o] = state.position[c[1]]

(* C28: in straight-line mode the seeker's candidate cell is its own cell  *)
(* plus the first of down, up, right, left whose dot product with target   *)
(* minus seeker is maximal; it moves there if that cell is in bounds and   *)
(* not blocked, and otherwise stays.                                       *)
C28_StraightLineStep ==
    \A p \in prev :
        last.action = "pathfinding_system" =>
            \A c \in Chasing(p, "STRAIGHT_LINE") :
                LET from == p.position[c[1]]
                    dx == p.position[c[2]][1] - from[1]
                    dy == p.position[c[2]][2] - from[2]
                    top == Max2(Max2(dy, -dy), Max2(dx, -dx))
                    candidate == CASE dy = top -> <<from[1], from[2] + 1>>
                                   [] -dy = top -> <<from[1], from[2] - 1>>
                                   [] dx = top -> <<from[1] + 1, from[2]>>
                                   [] OTHER -> <<from[1] - 1, from[2]>>
                IN  /\ raised = ""
                    /\ state.position[c[1]] =
                           IF candidate \in Passable(p) THEN candidate ELSE from

(* A straight-line seeker whose target lies diagonally, as far down as to  *)
(* the side: it moved down.                                                *)
C28_Witness ==
    \E p \in prev : \E c \in Chasing(p, "STRAIGHT_LINE") :
        /\ last.action = "pathfinding_system"
        /\ p.position[c[2]][2] - p.position[c[1]][2] > 0
        /\ p.position[c[2]][2] - p.position[c[1]][2]
               \in {p.position[c[2]][1] - p.position[c[1]][1],
                    p.position[c[1]][1] - p.position[c[2]][1]}
        /\ state.position[c[1]] = <<p.position[c[1]][1], p.position[c[1]][2] + 1>>

(* C30: as soon as a movement sub-step returns a world equal to the one it *)
(* was given, _step_move has returned: no further candidate position and   *)
(* no further repetition is processed.                                     *)
C30_BlockedMoveStopsEarly ==
    (last.action # "" /\ last.call = "_substep" /\ prev = {state}) => ~last.running

(* A sub-step that changed nothing while a repetition of a speed effect    *)
(* was still to come.                                                      *)
C30_Witness ==
    /\ last.action # "" /\ last.call = "_substep" /\ prev = {state}
    /\ last.reps > 0 /\ last.effect_id # {} /\ ~last.running

(* C25: the effect selection policy.  For a status and one or more effect *)
(* stores, get_status_effect yields nothing when no listed id is in a      *)
(* requested store with both limits absent or positive; otherwise the      *)
(* lowest such id without a usage limit, and failing that the lowest with  *)
(* one.  The sub-step machine's entry selects its speed effect so, and     *)
(* consuming it takes exactly one usage off a usage-limited effect and     *)
(* changes no other amount.                                                *)
C25_EffectSelectionPolicy ==
    LET live(s, stores, h) ==
            {f \in s.status[h] \cap stores :
                /\ \A n \in {s.time_limit[g] : g \in {f} \cap DOMAIN s.time_limit} : n > 0
                /\ \A n \in {s.usage_limit[g] : g \in {f} \cap DOMAIN s.usage_limit} : n > 0}
        free(s, stores, h) == live(s, stores, h) \ DOMAIN s.usage_limit
        policy(s, stores, h) ==
            IF live(s, stores, h) = {} THEN {}
            ELSE IF free(s, stores, h) # {}
            THEN {f \in free(s, stores, h) : \A g \in free(s, stores, h) : f <= g}
            ELSE {f \in live(s, stores, h) : \A g \in live(s, stores, h) : f <= g}
    IN  /\ \A h \in DOMAIN state.status :
           \A stores \in {DOMAIN state.speed, state.immunity,
                           state.immunity \cup DOMAIN state.speed} :
               get_status_effect(state.status[h], stores,
                                 state.time_limit, state.usage_limit)
                   = policy(state, stores, h)
        /\ \A p \in prev : \A h \in last.agent_arg :
               last.call = "_step_move" =>
                   /\ last.effect_id = policy(p, DOMAIN p.speed, h)
                   /\ state.usage_limit =
                          [f \in DOMAIN p.usage_limit |->
                              IF f \in last.effect_id THEN p.usage_limit[f] - 1
                              ELSE p.usage_limit[f]]

(* An entry of _step_move that passed over the lower-numbered speed effect *)
(* with usages left and selected the unlimited one.                        *)
C25_Witness ==
    \E p \in prev : \E f \in last.effect_id : \E g \in DOMAIN p.usage_limit :
        /\ last.call = "_step_move"
        /\ g < f /\ g \in DOMAIN p.speed /\ p.usage_limit[g] > 0
        /\ g \in p.status[The(last.agent_arg)]
        /\ f \notin DOMAIN p.usage_limit

(* C29: a directional move with an active speed effect sets out to resolve *)
(* the move strategy multiplier times (once without one), and resolves it  *)
(* that often unless a blocked sub-step ends the move; over the whole move *)
(* a usage-limited speed effect loses exactly one usage, and no sub-step   *)
(* changes a usage limit; the world returned is the one _step_move gives.  *)
C29_SpeedRepeatsMove ==
    \A p \in prev : \A w \in last.start :
        /\ last.call = "_step_move" =>
               last.reps = IF last.effect_id = {} THEN 1
                           ELSE p.speed[The(last.effect_id)]
        /\ last.call = "_substep" =>
               /\ state.usage_limit = p.usage_limit
               /\ state.usage_limit =
                      [f \in DOMAIN w.usage_limit |->
                          IF f \in last.effect_id THEN w.usage_limit[f] - 1
                          ELSE w.usage_limit[f]]
               /\ (~last.running /\ state # p) => last.reps = 0
               /\ ~last.running =>
                      state = _step_move(w, last.action, The(last.agent_arg), IterOrder)

(* A move under the x3 speed effect with one usage left that ran all three *)
(* repetitions: the agent, on the wrap-around grid, is back where it       *)
(* started, and the effect is used up.                                     *)
C29_Witness ==
    \E p \in prev : \E w \in last.start : \E f \in last.effect_id :
        /\ last.call = "_substep" /\ ~last.running /\ state # p
        /\ w.speed[f] = 3 /\ Has(w.usage_limit, f) /\ w.usage_limit[f] = 1
        /\ state.usage_limit[f] = 0
        /\ last.reps = 0
        /\ state.position[The(last.agent_arg)] = w.position[The(last.agent_arg)]

(* The contact predicates of every target t and damager d of world s that *)
(* both have a position and a previous position.                           *)
Contacts(s) ==
    LET t_trail(t) == {pos \in DOMAIN s.trail : t \in s.trail[pos]}
        Contact(t, d) ==
            [t |-> t, d |-> d,
             overlap |-> s.position[t] = s.position[d],
             swap |-> /\ s.prev_position[t] = s.position[d]
                      /\ s.prev_position[d] = s.position[t],
             trails_intersect |-> t_trail(t) \cap t_trail(d) # {},
             endpoint_cross |-> /\ s.position[t] = s.prev_position[d]
                                /\ \/ s.prev_position[t] \in t_trail(d)
                                   \/ s.prev_position[d] \in t_trail(t),
             vacated |-> /\ s.position[t] = s.prev_position[d]
                         /\ s.prev_position[t] \notin t_trail(d)
                         /\ s.position[d] \notin t_trail(t)]
    IN  UNION {{Contact(t, d) :
                   d \in {x \in _candidate_damagers(s) \ {t} :
                             {t, x} \subseteq DOMAIN s.position
                                              \cap DOMAIN s.prev_position}} :
               t \in DOMAIN s.health}

(* The last damage_system call left target t untouched by damager d: no    *)
(* hit was recorded for the pair, and unless another damager hit t, its    *)
(* health and its dead status are as before.                               *)
Untouched(p, t, d) ==
    /\ raised = ""
    /\ <<t, d, p.turn>> \notin NewHits
    /\ HittersOf(NewHits, t, p.turn) = {} =>
           state.health[t] = p.health[t] /\ (t \in state.dead <=> t \in p.dead)

(* C23: the pure vacated-origin exemption.  When the target stands on the  *)
(* cell the damager left, and the two do not overlap, did not swap, their  *)
(* trails do not intersect, the target's previous cell is not in the       *)
(* damager's trail and the damager's cell is not in the target's trail,    *)
(* damage_system applies no damage from the damager and records no hit.    *)
C23_VacatedOriginExempt ==
    \A p \in prev : \A c \in Contacts(p) :
        (/\ c.vacated
         /\ ~c.overlap
         /\ ~c.swap
         /\ ~c.trails_intersect)
            => Untouched(p, c.t, c.d)

(* An exempted pair of an exposed agent whose trail holds the cell the     *)
(* damager left, so that the endpoint-crossing test alone would have let   *)
(* the damage through.                                                     *)
C23_Witness ==
    \E p \in prev : \E c \in Contacts(p) :
        /\ c.vacated
        /\ ~c.overlap
        /\ ~c.swap
        /\ ~c.trails_intersect
        /\ c.endpoint_cross
        /\ Exposed(p, c.t) /\ p.damage_hits = {}
        /\ p.position[c.d] # p.prev_position[c.d]
        /\ state.health[c.t] = p.health[c.t] /\ c.t \notin state.dead

(* C24: swap collision.  When an exposed target and a damager that has not *)
(* hit it this turn have exchanged cells, damage_system applies the        *)
(* damager's damage: the hit is recorded, the target's health is its old   *)
(* health less the amounts of the damagers that hit it, floored at zero,   *)
(* and a lethal damager leaves it dead.  When none of overlap, swap, trail *)
(* intersection and endpoint crossing holds, the damager leaves the target *)
(* untouched.                                                              *)
C24_SwapCollision ==
    \A p \in prev : \A c \in Contacts(p) :
        /\ (/\ c.swap
            /\ Exposed(p, c.t)
            /\ <<c.t, c.d, p.turn>> \notin p.damage_hits)
               => /\ raised = ""
                  /\ <<c.t, c.d, p.turn>> \in NewHits
                  /\ state.health[c.t] =
                         Max2(0, p.health[c.t]
                                 - TotalAmount(p, HittersOf(NewHits, c.t, p.turn)))
                  /\ c.d \in p.lethal_damage => c.t \in state.dead
        /\ (/\ ~c.overlap
            /\ ~c.swap
            /\ ~c.trails_intersect
            /\ ~c.endpoint_cross)
               => Untouched(p, c.t, c.d)

(* An agent and a damager that exchanged two different cells, no trail    *)
(* in common: the agent lost the damager's amount.                         *)
C24_Witness ==
    \E p \in prev : \E c \in Contacts(p) :
        /\ c.swap
        /\ ~c.overlap
        /\ ~c.trails_intersect
        /\ Exposed(p, c.t) /\ p.damage_hits = {}
        /\ HittersOf(NewHits, c.t, p.turn) = {c.d}
        /\ state.health[c.t] = p.health[c.t] - AmountOf(p, c.d)
        /\ AmountOf(p, c.d) > 0

(* C31: the per-step reset.  A step that runs the pipeline gives the same  *)
(* result on a world and on that world with damage_hits and trail          *)
(* emptied, so no system of the step sees a hit or a trail entry of an     *)
(* earlier step; and the hits of a world returned by a pipeline step all   *)
(* carry the turn the step was called in.                                  *)
C31_PerStepReset ==
    /\ \A action \in Action : \A e \in state.agent :
           (is_valid_state(state, e) /\ ~is_terminal_state(state, e))
               => step(state, action, {e}, IterOrder)
                      = step([state EXCEPT !.damage_hits = {}, !.trail = EmptyMap],
                             action, {e}, IterOrder)
    /\ \A p \in prev : \A e \in LastActing :
           (/\ raised = "" /\ e \notin p.dead
            /\ is_valid_state(p, e) /\ ~is_terminal_state(p, e))
               => \A h \in state.damage_hits : h[3] = p.turn

(* A pipeline step called on a world that carried a hit and a trail entry  *)
(* of the step before: neither is in the world returned.                   *)
C31_Witness ==
    \E p \in prev : \E e \in LastActing :
        /\ raised = "" /\ state.turn = p.turn + 1
        /\ p.damage_hits # {} /\ p.damage_hits \cap state.damage_hits = {}
        /\ \E pos \in DOMAIN p.trail : pos \notin DOMAIN state.trail

(* C32: the tile economy.  tile_reward_system adds to the score the sum of *)
(* the amounts of the rewardable entities that stand on the agent's cell   *)
(* and are not collectible, tile_cost_system subtracts the same sum over   *)
(* the cost entities, and nothing else changes; when the agent is dead,    *)
(* the game is won or lost, the agent store is empty or the agent has no   *)
(* position, the world is returned as it was.                              *)
C32_TileEconomy ==
    \A p \in prev : \A eid \in last.agent_arg :
        LET counted(store) ==
                {x \in DOMAIN store :
                    /\ x \in DOMAIN p.position /\ p.position[x] = p.position[eid]
                    /\ x \notin p.collectible}
        IN  /\ raised = ""
            /\ (\/ eid \in p.dead \/ p.win \/ p.lose
                 \/ p.agent = {} \/ eid \notin DOMAIN p.position)
                    => state = p
            /\ ~(\/ eid \in p.dead \/ p.win \/ p.lose
                  \/ p.agent = {} \/ eid \notin DOMAIN p.position)
                    => /\ last.action = "tile_reward_system" =>
                              state = [p EXCEPT !.score =
                                          p.score + SumOver(p.rewardable, counted(p.rewardable))]
                       /\ last.action = "tile_cost_system" =>
                              state = [p EXCEPT !.score =
                                          p.score - SumOver(p.cost, counted(p.cost))]

(* tile_cost_system after tile_reward_system: coin 2 on the agent's cell   *)
(* has paid, coin 3 is collectible there; toll 4 on the cell is charged,   *)
(* toll 5 on the next cell is not.                                         *)
C32_Witness ==
    \E p \in prev :
        /\ last.action = "tile_cost_system" /\ 1 \in p.agent
        /\ 1..5 \subseteq DOMAIN p.position
        /\ p.position[2] = p.position[1] /\ p.position[3] = p.position[1]
        /\ 3 \in p.collectible /\ 2 \notin p.collectible
        /\ p.position[4] = p.position[1] /\ 4 \notin p.collectible
        /\ p.position[5] # p.position[1]
        /\ p.score = 10 /\ state.score = 8

C34_WinLoseExclusive == ~(state.win /\ state.lose)

(* C34, as the program has it: a call returns win and lose both true, from *)
(* a world where they were not both true, only with the acting entity in   *)
(* the dead store: either it was dead when step was called on a won world, *)
(* or it was killed in a sub-step after the one that met the objective.    *)
(* The turn limit never sets lose on a won world.                          *)
C34_BothOnlyByDeath ==
    \A p \in prev : \A e \in LastActing :
        (state.win /\ state.lose /\ ~(p.win /\ p.lose))
            => /\ raised = ""
               /\ e \in state.dead
               /\ e \in p.dead \/ ~p.win

(* A move of two sub-steps from a world with both flags false: the agent   *)
(* reaches the exit in the first and dies on the hazard in the second.     *)
C34_Witness ==
    \E p \in prev : \E e \in LastActing :
        /\ ~p.win /\ ~p.lose /\ e \notin p.dead
        /\ state.win /\ state.lose /\ e \in state.dead
        /\ state.turn = p.turn + 1
        /\ \E x \in state.exit : state.position[x] # state.position[e]

(* C35: the result of damage_system does not depend on the order in which  *)
(* the damagers of a target are evaluated: with the targets visited in the *)
(* same order, every visiting order of the damager set gives the same      *)
(* health, dead, usage_limit and damage_hits (or the same exception).      *)
C35_DamagerOrderIndependent ==
    LET run(ord) ==
            _target_loop(state,
                         [health |-> state.health, dead |-> state.dead,
                          usage_limit |-> state.usage_limit,
                          damage_hits |-> state.damage_hits, exc |-> FALSE],
                         Visit(DOMAIN state.health, IterOrder),
                         Visit(_candidate_damagers(state), ord))
        result(acc) == IF acc.exc THEN Raise("ValueError") ELSE acc
    IN  \A ord \in VisitOrders : result(run(ord)) = result(run(IterOrder))

(* C36: a seeker that stands on its target's cell does not move, in path  *)
(* mode and in straight-line mode alike, and a straight-line step never    *)
(* increases the Manhattan distance between seeker and target.             *)
C36_SeekerNeverMovesAway ==
    \A p \in prev :
        last.action = "pathfinding_system" =>
            \A c \in Chasing(p, "PATH") \cup Chasing(p, "STRAIGHT_LINE") :
                /\ p.position[c[1]] = p.position[c[2]]
                       => state.position[c[1]] = p.position[c[1]]
                /\ p.pathfinding[c[1]].type = "STRAIGHT_LINE"
                       => heuristic(state.position[c[1]], p.position[c[2]])
                              <= heuristic(p.position[c[1]], p.position[c[2]])

(* C36, as the program has it: in path mode a seeker on its target's cell  *)
(* stays.  In straight-line mode a seeker on another cell than its target  *)
(* never ends farther from it, and ends one cell nearer when it moves; a   *)
(* seeker on its target's cell steps down, away from the target, when the  *)
(* cell below is in bounds and not blocked, and stays otherwise.           *)
C36_SeekerLeavesOnlyFromTargetCell ==
    \A p \in prev :
        last.action = "pathfinding_system" =>
            /\ \A c \in Chasing(p, "PATH") :
                   p.position[c[1]] = p.position[c[2]]
                       => raised = "" /\ state.position[c[1]] = p.position[c[1]]
            /\ \A c \in Chasing(p, "STRAIGHT_LINE") :
                   LET from == p.position[c[1]]
                       goal == p.position[c[2]]
                       to == state.position[c[1]]
                       below == <<from[1], from[2] + 1>>
                   IN  /\ raised = ""
                       /\ from # goal =>
                              \/ to = from
                              \/ heuristic(to, goal) = heuristic(from, goal) - 1
                       /\ from = goal =>
                              to = IF below \in Passable(p) THEN below ELSE from

(* A straight-line seeker on its target's cell that stepped down: it is    *)
(* one cell away from the target after the call.                           *)
C36_Witness ==
    \E p \in prev : \E c \in Chasing(p, "STRAIGHT_LINE") :
        /\ last.action = "pathfinding_system" /\ raised = ""
        /\ p.position[c[1]] = p.position[c[2]]
        /\ state.position[c[2]] = p.position[c[2]]
        /\ heuristic(state.position[c[1]], state.position[c[2]]) = 1

(* C37: time limits are ticked before the action is dispatched, so an     *)
(* effect whose time limit is 1 when step is called has no effect in that  *)
(* step: the step returns what it returns on the world without the effect  *)
(* in the status (no move multiplier, no hit absorbed), with the effect    *)
(* gone from the status.                                                   *)
C37_LastTickHasNoEffect ==
    \A p \in prev : \A e \in LastActing :
        (/\ raised = "" /\ e \notin p.dead
         /\ is_valid_state(p, e) /\ ~is_terminal_state(p, e) /\ Has(p.status, e))
            => \A eff \in p.status[e] :
                   (Has(p.time_limit, eff) /\ p.time_limit[eff] = 1)
                       => /\ state = step([p EXCEPT !.status[e] = @ \ {eff}],
                                          last.action, {e}, IterOrder)
                          /\ Has(state.status, e) => eff \notin state.status[e]

(* C37, as the program has it: the same, except that pathfinding_system    *)
(* runs before the tick, so a phasing effect with time limit 1 still holds *)
(* off the seekers of its holder in that step, and does nothing else: the  *)
(* step returns what it returns on the world without the effect and        *)
(* without those seekers' pathfinding.  An effect with a time limit of 2   *)
(* or more is still listed when the step returns, with one taken off its   *)
(* time limit.                                                             *)
C37_LastTickOnlyStopsSeekers ==
    \A p \in prev : \A e \in LastActing :
        (/\ raised = "" /\ e \notin p.dead
         /\ is_valid_state(p, e) /\ ~is_terminal_state(p, e) /\ Has(p.status, e))
            => \A eff \in p.status[e] \cap DOMAIN p.time_limit :
                   LET bare == [p EXCEPT !.status[e] = @ \ {eff}]
                       calm(t) ==
                           [t EXCEPT !.pathfinding =
                               Restrict(t.pathfinding,
                                        {k \in DOMAIN t.pathfinding :
                                            t.pathfinding[k].target # {e}})]
                   IN  /\ p.time_limit[eff] = 1 =>
                              /\ Has(state.status, e) => eff \notin state.status[e]
                              /\ eff \notin p.phasing =>
                                     state = step(bare, last.action, {e}, IterOrder)
                              /\ eff \in p.phasing =>
                                     calm(state) = step(calm(bare), last.action, {e}, IterOrder)
                       /\ p.time_limit[eff] >= 2 =>
                              /\ eff \in state.status[e]
                              /\ state.time_limit[eff] = p.time_limit[eff] - 1

(* The second step of an episode whose speed effect had a time limit of 2: *)
(* the limit is 1 when step is called, the agent moves right by one cell   *)
(* only, and the effect is gone from its status.                           *)
C37_Witness ==
    \E p \in prev : \E e \in LastActing :
        /\ raised = "" /\ last.action = "RIGHT" /\ p.turn = 1 /\ state.turn = 2
        /\ \E eff \in p.status[e] \cap DOMAIN p.speed :
               /\ Has(p.time_limit, eff) /\ p.time_limit[eff] = 1
               /\ eff \notin state.status[e]
        /\ state.position[e] = <<p.position[e][1] + 1, p.position[e][2]>>
        /\ p.position[e][1] + 2 < p.width

(* C38: in every world returned by step, if the acting entity is in the   *)
(* dead store then lose is true: an agent killed in any sub-step, by its   *)
(* own move or by an entity that moved onto it, is reported as lost by the *)
(* step that killed it.                                                    *)
C38_DeadActorHasLost ==
    \A e \in LastActing :
        (raised = "" /\ e \in state.dead) => state.lose

(* A step in which the agent waits, the seeking hazard comes onto its cell *)
(* and kills it: the world returned has lose set.                          *)
C38_Witness ==
    \E p \in prev : \E e \in LastActing :
        /\ raised = "" /\ last.action \notin MOVE_ACTIONS
        /\ e \notin p.dead /\ ~p.lose /\ e \in state.dead /\ state.lose
        /\ state.position[e] = p.position[e]
        /\ \E d \in DOMAIN p.pathfinding :
               p.position[d] # p.position[e] /\ state.position[d] = state.position[e]

(* C39: in every world returned by a step that ran the pipeline, each      *)
(* effect id listed in a status is a key of the immunity, phasing or speed *)
(* store and is not expired (its time limit and its usage limit, where it  *)
(* has them, are above zero); and no usage limit is ever negative.         *)
C39_ListedEffectsAreLive ==
    /\ \A eff \in DOMAIN state.usage_limit : state.usage_limit[eff] >= 0
    /\ \A p \in prev : \A e \in LastActing :
           (/\ raised = "" /\ e \notin p.dead
            /\ is_valid_state(p, e) /\ ~is_terminal_state(p, e))
               => \A x \in DOMAIN state.status : \A eff \in state.status[x] :
                      /\ eff \in state.immunity \cup state.phasing \cup DOMAIN state.speed
                      /\ eff \in DOMAIN state.time_limit => state.time_limit[eff] > 0
                      /\ eff \in DOMAIN state.usage_limit => state.usage_limit[eff] > 0

(* A step that used up the last use of a listed effect: the effect is gone *)
(* from the status in the world returned, and another effect is still      *)
(* listed.                                                                 *)
C39_Witness ==
    \E p \in prev : \E e \in LastActing :
        /\ raised = "" /\ state.turn = p.turn + 1
        /\ Has(p.status, e) /\ Has(state.status, e)
        /\ \E eff \in p.status[e] :
               /\ Has(p.usage_limit, eff) /\ p.usage_limit[eff] = 1
               /\ eff \notin state.status[e]
        /\ state.status[e] # {}

(* C40: the garbage collector never removes live data: for every entity   *)
(* that has a position, or that is listed in the inventory or the status   *)
(* of a reachable entity, run_garbage_collector leaves every component     *)
(* entry as it was, and it never changes a scalar field.                   *)
C40_GcKeepsLiveData ==
    \A p \in prev :
        /\ \A e \in Reachable(p) :
               /\ \A f \in MarkerStores : (e \in state[f]) <=> (e \in p[f])
               /\ \A f \in MapStores :
                      /\ Has(state[f], e) <=> Has(p[f], e)
                      /\ Has(p[f], e) => state[f][e] = p[f][e]
        /\ \A f \in {"turn", "score", "win", "lose", "turn_limit", "seed",
                       "width", "height", "move_fn", "objective_fn"} :
               state[f] = p[f]

(* A collection that removed the ghost's entries and kept those of the     *)
(* positioned agent, of the key in its inventory and of the effect listed  *)
(* in the key's status.                                                    *)
C40_Witness ==
    \E p \in prev :
        /\ Has(p.position, 1) /\ 2 \in p.inventory[1] /\ 5 \in p.status[2]
        /\ Has(p.health, 4) /\ ~Has(state.health, 4)
        /\ Has(state.key, 2) /\ 5 \in state.phasing /\ state.usage_limit[5] = 1
        /\ p.score # 0 /\ state.score = p.score

====
